---- MODULE Spec2Model ----
(***************************************************************************)
(* A model of the tvbuff engine (tvbuff.c): buffer headers, the three      *)
(* buffer variants, the bounds arithmetic, the contiguity resolver and the *)
(* reference-counted life cycle.                                           *)
(*                                                                         *)
(* Buffer headers are numbered 1..MaxTvb in allocation order; 0 is the     *)
(* NULL pointer.  Byte storage is a set of regions, one per header: for a  *)
(* Real buffer the caller's data, for a Composite its flattened copy.  A   *)
(* byte pointer is a pair (region, offset).                                *)
(*                                                                         *)
(* guint values are held in TLC's integers, which are 32 bits signed, so   *)
(* UINT_MAX stands for the largest unsigned value and unsigned wrap-around  *)
(* is taken modulo UINT_MAX + 1.                                           *)
(***************************************************************************)
EXTENDS Integers, Sequences, FiniteSets, TLC

\* ---------------------------------------------------------------- bounds
MaxTvb == 3
MaxLen == 2
MaxRep == 3
MaxMembers == 2
MaxCalls == 7
MaxLengthCalls == 5
MaxAccessCalls == 6
MaxPasses == 3
MaxUncompressCalls == 1
MaxData == 3
MaxScanCalls == 4
MaxBitOffset == 9
MaxBitsCalls == 2
MaxLineCalls == 2
MaxUnquotedCalls == 2
MaxFlattenCalls == 6
MaxTtyCalls == 2
MaxOuthdrCalls == 2

\* ------------------------------------------------------------- constants
UINT_MAX == 2147483647

Tvb == 1..MaxTvb
NullTvb == 0
NULL == [base |-> 0, off |-> 0]

TVBUFF_REAL_DATA == "REAL_DATA"
TVBUFF_SUBSET == "SUBSET"
TVBUFF_COMPOSITE == "COMPOSITE"

BoundsError == "BoundsError"
ReportedBoundsError == "ReportedBoundsError"
DissectorError == "DissectorError"

VARIABLES
  tvb,            \* the buffer headers, indexed by header number
  nalloc,         \* headers handed out by tvb_new so far
  nfree,          \* per header: times it was given back to the mem chunk
  mem,            \* per region: the bytes stored there
  last_tvb_real,  \* static last_tvb of tvb_new_real_data
  last_tvb_subset,\* static last_tvb of tvb_new_subset
  held,           \* per header: references the caller still owns
  fault,          \* "none", or the undefined behaviour that ended the run
  ncalls,         \* calls the run may still make
  last            \* the last call made and what it returned or raised

vars == <<tvb, nalloc, nfree, mem, last_tvb_real, last_tvb_subset, held, fault, ncalls, last>>

\* ------------------------------------------------------------ arithmetic
Min(a, b) == IF a < b THEN a ELSE b

\* unsigned subtraction a - b, wrapping below zero
GuintSub(a, b) == IF a >= b THEN a - b ELSE (UINT_MAX - (b - a)) + 1

\* (guint) x for a gint x >= -1
ToGuint(x) == IF x < 0 THEN (UINT_MAX + x) + 1 ELSE x

\* the caller's bytes for the data of header b: distinct at every address
DataOf(b, n) == [i \in 1..n |-> 10 * b + i]

\* ---------------------------------------------------------------- tvb_init
tvb_init(type) ==
  [ type |-> type,
    initialized |-> FALSE,
    usage_count |-> 1,
    length |-> 0,
    reported_length |-> 0,
    real_data |-> NULL,
    used_in |-> <<>>,
    ds_tvb |-> NullTvb,
    subset |-> [tvb |-> NullTvb, offset |-> 0, length |-> 0],
    composite |-> [tvbs |-> <<>>, start_offsets |-> <<>>, end_offsets |-> <<>>] ]

\* a header is live from tvb_new until g_chunk_free
Live(b) == b \in 1..nalloc /\ nfree[b] = 0

\* --------------------------------------------------------------- life cycle
\* The life-cycle routines work on st = [tvb, nfree, fault]; touching a
\* header that was already given back is undefined and ends the run.
RECURSIVE tvb_free(_, _)
RECURSIVE tvb_decrement_usage_count(_, _, _)
RECURSIVE DecrementMembers(_, _)
RECURSIVE tvb_free_chain(_, _)
RECURSIVE FreeChainLoop(_, _, _)

tvb_decrement_usage_count(st, b, count) ==
  IF st.fault # "none" THEN st
  ELSE IF st.nfree[b] > 0 THEN [st EXCEPT !.fault = "use_after_free"]
  ELSE IF st.tvb[b].usage_count <= count
       THEN tvb_free([st EXCEPT !.tvb[b].usage_count = 1], b)
       ELSE [st EXCEPT !.tvb[b].usage_count = @ - count]

DecrementMembers(st, tvbs) ==
  IF tvbs = <<>> THEN st
  ELSE DecrementMembers(tvb_decrement_usage_count(st, Head(tvbs), 1), Tail(tvbs))

tvb_free(st, b) ==
  IF st.fault # "none" THEN st
  ELSE IF st.nfree[b] > 0 THEN [st EXCEPT !.fault = "use_after_free"]
  ELSE
    LET st1 == [st EXCEPT !.tvb[b].usage_count = GuintSub(@, 1)]
        t   == st1.tvb[b]
    IN IF t.usage_count # 0 THEN st1
       ELSE
         LET st2 == CASE t.type = TVBUFF_REAL_DATA -> st1
                      [] t.type = TVBUFF_SUBSET ->
                           IF t.subset.tvb # NullTvb
                           THEN tvb_decrement_usage_count(st1, t.subset.tvb, 1)
                           ELSE st1
                      [] t.type = TVBUFF_COMPOSITE ->
                           DecrementMembers(st1, t.composite.tvbs)
         IN IF st2.fault # "none" THEN st2
            ELSE [st2 EXCEPT !.nfree[b] = @ + 1]

FreeChainLoop(st, b, slist) ==
  IF st.fault # "none" \/ slist = <<>> THEN st
  ELSE IF st.nfree[b] > 0 THEN [st EXCEPT !.fault = "use_after_free"]
  ELSE FreeChainLoop(tvb_free_chain(st, Head(slist)), b, Tail(slist))

tvb_free_chain(st, b) ==
  IF st.fault # "none" THEN st
  ELSE IF st.nfree[b] > 0 THEN [st EXCEPT !.fault = "use_after_free"]
  ELSE tvb_free(FreeChainLoop(st, b, st.tvb[b].used_in), b)

\* Variant that links the user but takes no reference.
add_to_used_in_list_NoCount(t, b, used_in) ==
  [t EXCEPT ![b].used_in = <<used_in>> \o @]

add_to_used_in_list(t, b, used_in) ==
  [t EXCEPT ![b].used_in = <<used_in>> \o @,
            ![b].usage_count = @ + 1]

St == [tvb |-> tvb, nfree |-> nfree, fault |-> "none"]

\* ------------------------------------------------------------------- calls
\* A call record: the entry point, the buffer it was applied to (for a
\* constructor, the new header), its other buffer argument, its offset,
\* length and reported_length arguments, the exception it raised ("none"
\* when it returned), the bytes it delivered, the number it returned and,
\* for a call that keeps books of its own, those books.
Call(op, b, arg, offset, length, reported, exc, bytes) ==
  [op |-> op, tvb |-> b, arg |-> arg, offset |-> offset, length |-> length,
   reported |-> reported, exc |-> exc, bytes |-> bytes, ret |-> 0, quiet |-> FALSE,
   log |-> <<>>]

\* A read that left every header and region as it was: its record is all
\* there is to examine, and the run examined ends with it.  Every state the
\* buffers can be in is still reached, since such a read changes only last.
Running == fault = "none" /\ ~last.quiet /\ ncalls > 0

InitWith(calls) ==
  /\ tvb = [b \in Tvb |-> tvb_init("NONE")]
  /\ nalloc = 0
  /\ nfree = [b \in Tvb |-> 0]
  /\ mem = [b \in Tvb |-> <<>>]
  /\ last_tvb_real = NullTvb
  /\ last_tvb_subset = NullTvb
  /\ held = [b \in Tvb |-> 0]
  /\ fault = "none"
  /\ ncalls = calls
  /\ last = Call("init", NullTvb, NullTvb, 0, 0, 0, "none", <<>>)

Init == InitWith(MaxCalls)

\* tvb_new_real_data(data, length, reported_length), and
\* tvb_new_child_real_data(parent, ...) when parent # NullTvb
NewReal(parent, length, reported_length) ==
  /\ Running
  /\ ncalls' = ncalls - 1
  /\ nalloc < MaxTvb
  /\ parent # NullTvb => (Live(parent) /\ tvb[parent].initialized)
  /\ LET b   == nalloc + 1
         t0  == [tvb EXCEPT ![b] = tvb_init(TVBUFF_REAL_DATA)]
         st0 == [tvb |-> t0, nfree |-> nfree, fault |-> "none"]
         st1 == IF last_tvb_real # NullTvb THEN tvb_free(st0, last_tvb_real) ELSE st0
     IN /\ nalloc' = b
        /\ fault' = st1.fault
        /\ nfree' = st1.nfree
        /\ UNCHANGED last_tvb_subset
        /\ IF reported_length < -1
           THEN /\ tvb' = st1.tvb
                /\ last_tvb_real' = b
                /\ UNCHANGED <<mem, held>>
                /\ last' = Call(IF parent = NullTvb THEN "new_real" ELSE "new_real_child",
                                b, parent, 0, length, reported_length, ReportedBoundsError, <<>>)
           ELSE LET t1 == [st1.tvb EXCEPT ![b].real_data = [base |-> b, off |-> 0],
                                          ![b].length = length,
                                          ![b].reported_length = ToGuint(reported_length),
                                          ![b].initialized = TRUE,
                                          ![b].ds_tvb = b]
                IN /\ tvb' = IF parent = NullTvb THEN t1
                             ELSE add_to_used_in_list(t1, parent, b)
                   /\ last_tvb_real' = NullTvb
                   /\ mem' = [mem EXCEPT ![b] = DataOf(b, length)]
                   /\ held' = [held EXCEPT ![b] = 1]
                   /\ last' = Call(IF parent = NullTvb THEN "new_real" ELSE "new_real_child",
                                   b, parent, 0, length, reported_length, "none", <<>>)

\* ------------------------------------------------------- bounds arithmetic
\* Result of the range checks: ok, the exception written through the
\* exception pointer ("none" when nothing was written), *offset_ptr and
\* *length_ptr.
Range(ok, exc, off, len) == [ok |-> ok, exc |-> exc, off |-> off, len |-> len]

compute_offset_length(t, b, offset, length) ==
  LET B == t[b]
      bad(e) == Range(FALSE, e, 0, 0)
      off == IF offset >= 0
             THEN IF offset > B.reported_length THEN bad(ReportedBoundsError)
                  ELSE IF offset > B.length THEN bad(BoundsError)
                  ELSE Range(TRUE, "none", offset, 0)
             ELSE IF -offset > B.reported_length THEN bad(ReportedBoundsError)
                  ELSE IF -offset > B.length THEN bad(BoundsError)
                  ELSE Range(TRUE, "none", B.length + offset, 0)
  IN IF ~off.ok THEN off
     ELSE IF length < -1 THEN Range(FALSE, BoundsError, off.off, 0)
     ELSE IF length = -1 THEN Range(TRUE, "none", off.off, B.length - off.off)
     ELSE Range(TRUE, "none", off.off, length)

\* Variant whose end-offset test treats "ends exactly at reported_length"
\* as beyond the reported length.
EndOffsetCheck_Strict(t, b, c) ==
  IF ~c.ok THEN c
     ELSE IF c.off + c.len <= t[b].length THEN c
     ELSE IF c.off + c.len < t[b].reported_length
          THEN Range(FALSE, BoundsError, c.off, c.len)
          ELSE Range(FALSE, ReportedBoundsError, c.off, c.len)

\* the end-offset test of check_offset_length_no_exception on the range c
\* that compute_offset_length produced; offsets and lengths are below
\* 2^31, so the sum does not wrap
EndOffsetCheck(t, b, c) ==
  IF ~c.ok THEN c
     ELSE IF c.off + c.len <= t[b].length THEN c
     ELSE IF c.off + c.len <= t[b].reported_length
          THEN Range(FALSE, BoundsError, c.off, c.len)
          ELSE Range(FALSE, ReportedBoundsError, c.off, c.len)

check_offset_length_no_exception(t, b, offset, length) ==
  EndOffsetCheck(t, b, compute_offset_length(t, b, offset, length))

\* raises c.exc when ~c.ok
check_offset_length(t, b, offset, length) ==
  check_offset_length_no_exception(t, b, offset, length)

\* ------------------------------------------------------------ constructors
\* tvb_set_subset on the fresh header b; [exc, tvb]
\* Variant that caches the backing's pointer without advancing it by the
\* subset's offset.
tvb_set_subset_NoOffset(t, b, backing, backing_offset, backing_length, reported_length) ==
  IF reported_length < -1 THEN [exc |-> ReportedBoundsError, tvb |-> t]
  ELSE
    LET c == check_offset_length(t, backing, backing_offset, backing_length)
    IN IF ~c.ok
       THEN [exc |-> c.exc,
             tvb |-> [t EXCEPT ![b].subset.offset = c.off, ![b].subset.length = c.len]]
       ELSE
         LET t1 == [t EXCEPT
                      ![b].subset = [tvb |-> backing, offset |-> c.off, length |-> c.len],
                      ![b].length = c.len,
                      ![b].reported_length =
                          IF reported_length = -1
                          THEN GuintSub(t[backing].reported_length, c.off)
                          ELSE reported_length,
                      ![b].initialized = TRUE]
             t2 == add_to_used_in_list(t1, backing, b)
         IN [exc |-> "none",
             tvb |-> IF t[backing].real_data # NULL
                     THEN [t2 EXCEPT ![b].real_data = t[backing].real_data]
                     ELSE t2]

tvb_set_subset(t, b, backing, backing_offset, backing_length, reported_length) ==
  IF reported_length < -1 THEN [exc |-> ReportedBoundsError, tvb |-> t]
  ELSE
    LET c == check_offset_length(t, backing, backing_offset, backing_length)
    IN IF ~c.ok
       THEN [exc |-> c.exc,
             tvb |-> [t EXCEPT ![b].subset.offset = c.off, ![b].subset.length = c.len]]
       ELSE
         LET t1 == [t EXCEPT
                      ![b].subset = [tvb |-> backing, offset |-> c.off, length |-> c.len],
                      ![b].length = c.len,
                      ![b].reported_length =
                          IF reported_length = -1
                          THEN GuintSub(t[backing].reported_length, c.off)
                          ELSE reported_length,
                      ![b].initialized = TRUE]
             t2 == add_to_used_in_list(t1, backing, b)
         IN [exc |-> "none",
             tvb |-> IF t[backing].real_data # NULL
                     THEN [t2 EXCEPT ![b].real_data =
                              [base |-> t[backing].real_data.base,
                               off |-> t[backing].real_data.off + c.off]]
                     ELSE t2]

\* tvb_new_subset(backing, backing_offset, backing_length, reported_length)
NewSubset(backing, backing_offset, backing_length, reported_length) ==
  /\ Running
  /\ ncalls' = ncalls - 1
  /\ nalloc < MaxTvb
  /\ Live(backing) /\ tvb[backing].initialized
  /\ LET b   == nalloc + 1
         t0  == [tvb EXCEPT ![b] = tvb_init(TVBUFF_SUBSET)]
         st0 == [tvb |-> t0, nfree |-> nfree, fault |-> "none"]
         st1 == IF last_tvb_subset # NullTvb THEN tvb_free(st0, last_tvb_subset) ELSE st0
         r   == tvb_set_subset(st1.tvb, b, backing, backing_offset, backing_length,
                               reported_length)
     IN /\ nalloc' = b
        /\ fault' = st1.fault
        /\ nfree' = st1.nfree
        /\ UNCHANGED <<last_tvb_real, mem>>
        /\ last' = Call("new_subset", b, backing, backing_offset, backing_length,
                        reported_length, r.exc, <<>>)
        /\ IF r.exc # "none"
           THEN /\ tvb' = r.tvb
                /\ last_tvb_subset' = b
                /\ UNCHANGED held
           ELSE /\ tvb' = [r.tvb EXCEPT ![b].ds_tvb = tvb[backing].ds_tvb]
                /\ last_tvb_subset' = NullTvb
                /\ held' = [held EXCEPT ![b] = 1]

\* tvb_new_composite()
NewComposite ==
  /\ Running
  /\ ncalls' = ncalls - 1
  /\ nalloc < MaxTvb
  /\ nalloc' = nalloc + 1
  /\ tvb' = [tvb EXCEPT ![nalloc + 1] = tvb_init(TVBUFF_COMPOSITE)]
  /\ held' = [held EXCEPT ![nalloc + 1] = 1]
  /\ last' = Call("new_composite", nalloc + 1, NullTvb, 0, 0, 0, "none", <<>>)
  /\ UNCHANGED <<nfree, mem, last_tvb_real, last_tvb_subset, fault>>

tvb_composite_append(t, c, member) ==
  add_to_used_in_list([t EXCEPT ![c].composite.tvbs = Append(@, member)], c, member)

tvb_composite_prepend(t, c, member) ==
  add_to_used_in_list([t EXCEPT ![c].composite.tvbs = <<member>> \o @], c, member)

CanAddMember(c, member) ==
  /\ Running
  /\ Live(c) /\ tvb[c].type = TVBUFF_COMPOSITE /\ ~tvb[c].initialized
  /\ Live(member) /\ tvb[member].initialized
  /\ Len(tvb[c].composite.tvbs) < MaxMembers

CompositeAppend(c, member) ==
  /\ CanAddMember(c, member)
  /\ ncalls' = ncalls - 1
  /\ tvb' = tvb_composite_append(tvb, c, member)
  /\ last' = Call("composite_append", c, member, 0, 0, 0, "none", <<>>)
  /\ UNCHANGED <<nalloc, nfree, mem, last_tvb_real, last_tvb_subset, held, fault>>

CompositePrepend(c, member) ==
  /\ CanAddMember(c, member)
  /\ ncalls' = ncalls - 1
  /\ tvb' = tvb_composite_prepend(tvb, c, member)
  /\ last' = Call("composite_prepend", c, member, 0, 0, 0, "none", <<>>)
  /\ UNCHANGED <<nalloc, nfree, mem, last_tvb_real, last_tvb_subset, held, fault>>

\* the loop of tvb_composite_finalize from member i on
RECURSIVE FinalizeLoop(_, _, _)
FinalizeLoop(t, c, i) ==
  IF i > Len(t[c].composite.tvbs) THEN t
  ELSE LET member_tvb == t[c].composite.tvbs[i]
           start == t[c].length
           len   == start + t[member_tvb].length
       IN FinalizeLoop([t EXCEPT ![c].composite.start_offsets = Append(@, start),
                                 ![c].length = len,
                                 ![c].composite.end_offsets = Append(@, GuintSub(len, 1))],
                       c, i + 1)

tvb_composite_finalize(t, c) ==
  [FinalizeLoop(t, c, 1) EXCEPT ![c].initialized = TRUE]

CompositeFinalize(c) ==
  /\ Running
  /\ ncalls' = ncalls - 1
  /\ Live(c) /\ tvb[c].type = TVBUFF_COMPOSITE /\ ~tvb[c].initialized
  /\ \A i \in 1..Len(tvb[c].composite.tvbs) : Live(tvb[c].composite.tvbs[i])
  /\ tvb' = tvb_composite_finalize(tvb, c)
  /\ last' = Call("composite_finalize", c, NullTvb, 0, 0, 0, "none", <<>>)
  /\ UNCHANGED <<nalloc, nfree, mem, last_tvb_real, last_tvb_subset, held, fault>>

\* every header a tvb_free_chain(b) call hands to tvb_free, following used_in
RECURSIVE ChainOf(_, _)
ChainOf(t, b) ==
  {b} \cup UNION {ChainOf(t, t[b].used_in[i]) : i \in 1..Len(t[b].used_in)}

\* tvb_free(b) by a caller that owns a reference to b
Free(b) ==
  /\ Running
  /\ ncalls' = ncalls - 1
  /\ Live(b) /\ held[b] > 0
  /\ LET st == tvb_free(St, b)
     IN /\ tvb' = st.tvb
        /\ nfree' = st.nfree
        /\ fault' = st.fault
  /\ held' = [held EXCEPT ![b] = @ - 1]
  /\ last' = Call("free", b, NullTvb, 0, 0, 0, "none", <<>>)
  /\ UNCHANGED <<nalloc, mem, last_tvb_real, last_tvb_subset>>

\* tvb_free_chain(b) by a caller that owns a reference to b
FreeChain(b) ==
  /\ Running
  /\ ncalls' = ncalls - 1
  /\ Live(b) /\ held[b] > 0
  /\ LET st == tvb_free_chain(St, b)
     IN /\ tvb' = st.tvb
        /\ nfree' = st.nfree
        /\ fault' = st.fault
  /\ held' = [x \in Tvb |-> IF x \in ChainOf(tvb, b) /\ held[x] > 0
                            THEN held[x] - 1 ELSE held[x]]
  /\ last' = Call("free_chain", b, NullTvb, 0, 0, 0, "none", <<>>)
  /\ UNCHANGED <<nalloc, mem, last_tvb_real, last_tvb_subset>>

\* tvb_set_reported_length(b, reported_length)
\* Variant that shortens reported_length without clamping length.
tvb_set_reported_length_NoClamp(t, b, reported_length) ==
  IF reported_length > t[b].reported_length
  THEN [exc |-> ReportedBoundsError, tvb |-> t]
  ELSE [exc |-> "none",
        tvb |-> [t EXCEPT ![b].reported_length = reported_length]]

tvb_set_reported_length(t, b, reported_length) ==
  IF reported_length > t[b].reported_length
  THEN [exc |-> ReportedBoundsError, tvb |-> t]
  ELSE [exc |-> "none",
        tvb |-> [t EXCEPT ![b].reported_length = reported_length,
                          ![b].length = IF reported_length < @ THEN reported_length ELSE @]]

SetReportedLength(b, reported_length) ==
  /\ Running
  /\ ncalls' = ncalls - 1
  /\ Live(b) /\ tvb[b].initialized
  /\ LET r == tvb_set_reported_length(tvb, b, reported_length)
     IN /\ tvb' = r.tvb
        /\ last' = Call("set_reported_length", b, NullTvb, 0, 0, reported_length, r.exc, <<>>)
  /\ UNCHANGED <<nalloc, nfree, mem, last_tvb_real, last_tvb_subset, held, fault>>

\* ------------------------------------------------------------ length queries
\* tvb_bytes_exist: TRUE is 1, FALSE is 0
tvb_bytes_exist(t, b, offset, length) ==
  LET c == compute_offset_length(t, b, offset, length)
  IN IF ~c.ok THEN 0
     ELSE IF c.off + c.len <= t[b].length THEN 1 ELSE 0

\* tvb_offset_exists: TRUE is 1, FALSE is 0
tvb_offset_exists(t, b, offset) ==
  LET c == compute_offset_length(t, b, offset, -1)
  IN IF ~c.ok THEN 0
     ELSE IF c.off < t[b].length THEN 1 ELSE 0

\* a call that changes no buffer and returns ret
Queried(op, b, offset, length, exc, ret) ==
  /\ last' = [Call(op, b, NullTvb, offset, length, 0, exc, <<>>)
                EXCEPT !.ret = ret, !.quiet = TRUE]
  /\ ncalls' = ncalls - 1
  /\ UNCHANGED <<tvb, mem, nalloc, nfree, last_tvb_real, last_tvb_subset, held, fault>>

BytesExist(b, offset, length) ==
  /\ Running /\ Live(b) /\ tvb[b].initialized
  /\ Queried("bytes_exist", b, offset, length, "none",
             tvb_bytes_exist(tvb, b, offset, length))

OffsetExists(b, offset) ==
  /\ Running /\ Live(b) /\ tvb[b].initialized
  /\ Queried("offset_exists", b, offset, 0, "none", tvb_offset_exists(tvb, b, offset))

\* ------------------------------------------------------------------ copying
\* the length bytes at pointer p; reading past the end of p's region is
\* undefined
InRegion(m, p, length) == p.off + length <= Len(m[p.base])
ReadMem(m, p, length) == SubSeq(m[p.base], p.off + 1, p.off + length)

\* index of the first member whose end offset is not below abs_offset, or 0
MemberAt(t, c, abs_offset) ==
  LET idx == {i \in 1..Len(t[c].composite.tvbs) : abs_offset <= t[c].composite.end_offsets[i]}
  IN IF idx = {} THEN 0 ELSE CHOOSE i \in idx : \A j \in idx : i <= j

\* (guint) x for any gint x
AsGuint(x) == IF x < 0 THEN (UINT_MAX + x) + 1 ELSE x

\* Result of a copy: the exception thrown ("none" when the copy returned)
\* and the bytes written to the target.
Copied(thrown, bytes) == [thrown |-> thrown, bytes |-> bytes]

RECURSIVE tvb_memcpy(_, _, _, _, _)
RECURSIVE composite_memcpy(_, _, _, _, _)

composite_memcpy(t, m, c, abs_offset, abs_length) ==
  LET i == MemberAt(t, c, abs_offset)
  IN IF i = 0 THEN Copied(DissectorError, <<>>)
     ELSE
       LET member_tvb == t[c].composite.tvbs[i]
           rel == abs_offset - t[c].composite.start_offsets[i]
           chk == check_offset_length_no_exception(t, member_tvb, rel, abs_length)
       IN IF chk.ok
          THEN IF t[c].real_data # NULL THEN Copied(DissectorError, <<>>)
               ELSE tvb_memcpy(t, m, member_tvb, chk.off, chk.len)
          ELSE
            LET cmp == compute_offset_length(t, member_tvb, rel, -1)
            IN IF ~cmp.ok THEN Copied(DissectorError, <<>>)
               ELSE
                 LET part == tvb_memcpy(t, m, member_tvb, cmp.off, cmp.len)
                 IN IF part.thrown # "none" THEN part
                    ELSE IF abs_length - cmp.len <= 0 THEN part
                    \* a step that copied nothing recurses with the same
                    \* arguments and never returns
                    ELSE IF cmp.len = 0 THEN Copied("StackOverflow", <<>>)
                    ELSE LET rest == composite_memcpy(t, m, c, abs_offset + cmp.len,
                                                      abs_length - cmp.len)
                         \* the value of the recursive call is dropped
                         IN Copied("none", part.bytes \o rest.bytes)

tvb_memcpy(t, m, b, offset, length) ==
  IF length < 0 THEN Copied(DissectorError, <<>>)
  ELSE
    LET c == check_offset_length(t, b, offset, length)
    IN IF ~c.ok THEN Copied(c.exc, <<>>)
       ELSE IF t[b].real_data # NULL
            THEN LET p == [base |-> t[b].real_data.base, off |-> t[b].real_data.off + c.off]
                 IN IF InRegion(m, p, c.len) THEN Copied("none", ReadMem(m, p, c.len))
                    ELSE Copied("OutOfBoundsRead", <<>>)
       ELSE CASE t[b].type = TVBUFF_REAL_DATA -> Copied(DissectorError, <<>>)
              [] t[b].type = TVBUFF_SUBSET ->
                   tvb_memcpy(t, m, t[b].subset.tvb, c.off - t[b].subset.offset, c.len)
              [] t[b].type = TVBUFF_COMPOSITE ->
                   composite_memcpy(t, m, b, AsGuint(offset), length)

tvb_memdup(t, m, b, offset, length) ==
  LET c == check_offset_length(t, b, offset, length)
  IN IF ~c.ok THEN Copied(c.exc, <<>>)
     ELSE tvb_memcpy(t, m, b, c.off, c.len)

\* ------------------------------------------------------ contiguity resolver
\* Result of the resolver: the exception thrown out of it ("none" when it
\* returned), the pointer returned (NULL on failure), the exception written
\* through the exception pointer ("none" when nothing was written), the
\* number of bytes asked for, and the headers and regions afterwards.
Resolved(thrown, ptr, exc, len, t, m) ==
  [thrown |-> thrown, ptr |-> ptr, exc |-> exc, len |-> len, tvb |-> t, mem |-> m]

RECURSIVE ensure_contiguous_no_exception(_, _, _, _, _)
RECURSIVE composite_ensure_contiguous_no_exception(_, _, _, _, _)

composite_ensure_contiguous_no_exception(t, m, c, abs_offset, abs_length) ==
  LET i == MemberAt(t, c, abs_offset)
  IN IF i = 0 THEN Resolved(DissectorError, NULL, "none", abs_length, t, m)
     ELSE
       LET member_tvb == t[c].composite.tvbs[i]
           chk == check_offset_length_no_exception(t, member_tvb,
                     abs_offset - t[c].composite.start_offsets[i], abs_length)
       IN IF chk.ok
          THEN IF t[c].real_data # NULL
               THEN Resolved(DissectorError, NULL, "none", abs_length, t, m)
               ELSE [ensure_contiguous_no_exception(t, m, member_tvb, chk.off, chk.len)
                       EXCEPT !.exc = "none"]
          ELSE
            LET dup == tvb_memdup(t, m, c, 0, -1)
            IN IF dup.thrown # "none"
               THEN Resolved(dup.thrown, NULL, "none", abs_length, t, m)
               ELSE Resolved("none", [base |-> c, off |-> abs_offset], "none", abs_length,
                             [t EXCEPT ![c].real_data = [base |-> c, off |-> 0]],
                             [m EXCEPT ![c] = dup.bytes])

\* ensure_contiguous_no_exception after its range check returned c
RECURSIVE ResolveChecked(_, _, _, _)
ResolveChecked(t, m, b, c) ==
  IF ~c.ok THEN Resolved("none", NULL, c.exc, 0, t, m)
     ELSE IF t[b].real_data # NULL
          THEN Resolved("none", [base |-> t[b].real_data.base,
                                 off |-> t[b].real_data.off + c.off], "none", c.len, t, m)
     ELSE CASE t[b].type = TVBUFF_REAL_DATA ->
                 Resolved(DissectorError, NULL, "none", c.len, t, m)
            [] t[b].type = TVBUFF_SUBSET ->
                 [ensure_contiguous_no_exception(t, m, t[b].subset.tvb,
                                                 c.off - t[b].subset.offset, c.len)
                    EXCEPT !.exc = "none"]
            [] t[b].type = TVBUFF_COMPOSITE ->
                 composite_ensure_contiguous_no_exception(t, m, b, c.off, c.len)

ensure_contiguous_no_exception(t, m, b, offset, length) ==
  ResolveChecked(t, m, b, check_offset_length_no_exception(t, b, offset, length))

\* What THROW(exception) does when exception was never written: the int is
\* uninitialized, so the assertion may fail or any exception may be thrown.
Uninitialized == {DissectorError, BoundsError, ReportedBoundsError, "OtherException"}

\* what ensure_contiguous does with the resolver's result r; u is the
\* outcome taken if exception is read unwritten
Thrown(r, u) ==
  IF r.thrown # "none" THEN r
     ELSE IF r.ptr = NULL
          THEN [r EXCEPT !.thrown = IF r.exc # "none" THEN r.exc ELSE u]
          ELSE r

ensure_contiguous(t, m, b, offset, length, u) ==
  Thrown(ensure_contiguous_no_exception(t, m, b, offset, length), u)

\* the resolver returned NULL and wrote no exception
Unwritten(r) == r.thrown = "none" /\ r.ptr = NULL /\ r.exc = "none"

\* does ensure_contiguous read the exception variable unwritten?
ReadsUninitialized(t, m, b, offset, length) ==
  Unwritten(ensure_contiguous_no_exception(t, m, b, offset, length))

\* Variant that compares the end of the range with the reported length
\* only.
fast_ensure_contiguous_Reported(t, m, b, offset, length, u) ==
  IF offset < 0 \/ t[b].real_data = NULL
  THEN ensure_contiguous(t, m, b, offset, length, u)
  ELSE IF offset + length <= t[b].reported_length
       THEN Resolved("none", [base |-> t[b].real_data.base,
                              off |-> t[b].real_data.off + offset], "none", length, t, m)
       ELSE Resolved(ReportedBoundsError, NULL, "none", length, t, m)

fast_ensure_contiguous(t, m, b, offset, length, u) ==
  IF offset < 0 \/ t[b].real_data = NULL
  THEN ensure_contiguous(t, m, b, offset, length, u)
  ELSE
    LET end_offset == offset + length
    IN IF end_offset <= t[b].length
       THEN Resolved("none", [base |-> t[b].real_data.base,
                              off |-> t[b].real_data.off + offset], "none", length, t, m)
       ELSE IF end_offset > t[b].reported_length
            THEN Resolved(ReportedBoundsError, NULL, "none", length, t, m)
            ELSE Resolved(BoundsError, NULL, "none", length, t, m)

\* the bytes a caller finds behind a resolved pointer
Deref(r) ==
  IF r.thrown # "none" THEN Copied(r.thrown, <<>>)
  ELSE IF InRegion(r.mem, r.ptr, r.len) THEN Copied("none", ReadMem(r.mem, r.ptr, r.len))
  ELSE Copied("OutOfBoundsRead", <<>>)

UninitChoices(t, m, b, offset, length) ==
  IF ReadsUninitialized(t, m, b, offset, length) THEN Uninitialized ELSE {"none"}

CanAccess(b) == Running /\ Live(b) /\ tvb[b].initialized

Accessed(op, b, offset, length, r) ==
  LET d == Deref(r)
  IN /\ tvb' = r.tvb
     /\ mem' = r.mem
     /\ last' = [Call(op, b, NullTvb, offset, length, 0, d.thrown, d.bytes)
                   EXCEPT !.quiet = (r.tvb = tvb /\ r.mem = mem)]
     /\ fault' = IF d.thrown \in {"StackOverflow", "OutOfBoundsRead"}
                 THEN d.thrown ELSE "none"
     /\ UNCHANGED <<nalloc, nfree, last_tvb_real, last_tvb_subset, held>>

\* tvb_get_ptr(b, offset, length)
GetPtr(b, offset, length) ==
  /\ CanAccess(b)
  /\ ncalls' = ncalls - 1
  /\ \E u \in UninitChoices(tvb, mem, b, offset, length) :
       Accessed("get_ptr", b, offset, length,
                ensure_contiguous(tvb, mem, b, offset, length, u))

\* tvb_get_guint8, tvb_get_ntohs, tvb_get_ntoh24, tvb_get_ntohl, tvb_get_ntoh64:
\* the length bytes behind fast_ensure_contiguous(b, offset, length)
GetUint(b, offset, length) ==
  /\ CanAccess(b)
  /\ ncalls' = ncalls - 1
  /\ \E u \in UninitChoices(tvb, mem, b, offset, length) :
       Accessed("get_uint", b, offset, length,
                fast_ensure_contiguous(tvb, mem, b, offset, length, u))

\* tvb_memcpy(b, target, offset, length)
Memcpy(b, offset, length) ==
  /\ CanAccess(b)
  /\ ncalls' = ncalls - 1
  /\ LET r == tvb_memcpy(tvb, mem, b, offset, length)
     IN /\ last' = [Call("memcpy", b, NullTvb, offset, length, 0, r.thrown, r.bytes)
                      EXCEPT !.quiet = TRUE]
        /\ fault' = IF r.thrown \in {"StackOverflow", "OutOfBoundsRead"}
                    THEN r.thrown ELSE "none"
  /\ UNCHANGED <<tvb, mem, nalloc, nfree, last_tvb_real, last_tvb_subset, held>>

\* ------------------------------------------------------------ tvb_uncompress
\* What the decoder (zlib) reports.  The decoder is not part of the
\* program: a run of tvb_uncompress is driven by a script, the sequence of
\* results inflate returns together with the bytes each pass produced.
Z_OK == "Z_OK"
Z_STREAM_END == "Z_STREAM_END"
Z_BUF_ERROR == "Z_BUF_ERROR"
Z_DATA_ERROR == "Z_DATA_ERROR"
Z_MEM_ERROR == "Z_MEM_ERROR"
Z_STREAM_ERROR == "Z_STREAM_ERROR"
Z_DEFLATED == 8
GZIP_ID1 == 31
GZIP_ID2 == 139
FEXTRA == 4
FNAME == 8
FCOMMENT == 16

Inflated(err, out) == [err |-> err, out |-> out]

\* flags & bit, for bit a power of two
HasFlag(flags, bit) == (flags \div bit) % 2 = 1

\* the byte at compr + i; beyond the scratch copy the read is undefined and
\* delivers whatever the heap holds there (z.junk)
ComprAt(z, i) == IF 0 <= i /\ i < Len(z.compr) THEN z.compr[i + 1] ELSE z.junk

Read(z, i) == [z EXCEPT !.reads = @ \cup {i}]

\* g_free of each of the named allocations
GFree(z, names) ==
  [z EXCEPT !.rel = [n \in DOMAIN z.rel |-> z.rel[n] + IF n \in names THEN 1 ELSE 0]]

\* inflateEnd releases the decoder's state when there is one
InflateEnd(z) ==
  [z EXCEPT !.zlive = FALSE, !.zended = @ + IF z.zlive THEN 1 ELSE 0]

\* inflateInit2 followed by the count of it
InflateInit2(z) ==
  LET n  == z.inits_done + 1
      ok == n # z.failinit
  IN [z EXCEPT !.inits_done = n, !.zlive = ok, !.zinits = @ + IF ok THEN 1 ELSE 0,
               !.err = IF ok THEN Z_OK ELSE Z_MEM_ERROR]

Return(z, path, has_tvb) == [z EXCEPT !.exit = path, !.ret = has_tvb]

\* the three frees every error path in the loop makes, after inflateEnd
FreeAll(z) == GFree(InflateEnd(z), {"strm", "compr", "strmbuf"})

\* what follows the loop: the accumulator, when there is one, goes to the
\* new buffer, and the scratch copy is released
AfterLoop(z, path) == Return(GFree(z, {"compr"}), path, z.has)

\* while ((c - compr) < comprlen && *c != '\0') c++;  then c++
RECURSIVE SkipString(_)
SkipString(z) ==
  IF z.c < z.comprlen
  THEN IF ComprAt(z, z.c) # 0
       THEN SkipString([Read(z, z.c) EXCEPT !.c = @ + 1])
       ELSE [Read(z, z.c) EXCEPT !.c = @ + 1]
  ELSE [z EXCEPT !.c = @ + 1]

\* the Extra field: xsize is read from c and c + 1, and c advances by it
SkipExtra(z) ==
  LET xsize == ComprAt(z, z.c) + 256 * ComprAt(z, z.c + 1)
  IN [Read(Read(z, z.c), z.c + 1) EXCEPT !.c = @ + xsize]

\* the optional sections of a gzip header, by the flags byte
SkipSections(z, flags) ==
  LET z1 == IF HasFlag(flags, FEXTRA) THEN SkipExtra(z) ELSE z
      z2 == IF HasFlag(flags, FNAME) THEN SkipString(z1) ELSE z1
  IN IF HasFlag(flags, FCOMMENT) THEN SkipString(z2) ELSE z2

\* the gzip branch up to the re-initialisation: z.c is the pointer c as an
\* index into compr, z.exit # "" when the branch returned
GzipHeader(z) ==
  LET z0 == Read([z EXCEPT !.c = 2], 2)
  IN IF ComprAt(z0, z0.c) # Z_DEFLATED THEN Return(FreeAll(z0), "not_deflated", FALSE)
     ELSE
       LET flags == ComprAt(z0, z0.c + 1)
           z1 == SkipSections([Read(z0, z0.c + 1) EXCEPT !.c = (@ + 1) + 7], flags)
           z2 == [z1 EXCEPT !.next = z1.c]
       IN IF z2.c > z2.comprlen THEN Return(FreeAll(z2), "header_past_end", FALSE)
          ELSE InflateInit2(InflateEnd([z2 EXCEPT !.comprlen = @ - z2.c]))

\* the reads of compr[0] and compr[1] that select the gzip branch
Magic(z) ==
  IF ComprAt(z, 0) = GZIP_ID1 THEN Read(Read(z, 0), 1) ELSE Read(z, 0)

IsGzip(z) == ComprAt(z, 0) = GZIP_ID1 /\ ComprAt(z, 1) = GZIP_ID2

\* one call of inflate: an error when the stream has no state, else the next
\* result of the script; a decoder left without input reports Z_BUF_ERROR
Inflate(z) ==
  IF ~z.zlive THEN Inflated(Z_STREAM_ERROR, <<>>)
  ELSE IF z.script = <<>> THEN Inflated(Z_BUF_ERROR, <<>>)
  ELSE Head(z.script)

Consumed(z) ==
  [z EXCEPT !.script = IF z.zlive /\ @ # <<>> THEN Tail(@) ELSE @,
            !.errs = Append(@, Inflate(z).err)]

RECURSIVE InflateLoop(_)

\* the body of the while loop for one result of inflate
Pass(z, err, out) ==
  CASE err \in {Z_OK, Z_STREAM_END} ->
         \* g_memdup of no bytes is NULL; g_malloc0 aborts rather than
         \* return NULL, so new_data is never NULL
         LET z1 == [z EXCEPT !.has = (z.has \/ out # <<>>),
                             !.uncompr = @ \o out,
                             !.bytes_out = @ + Len(out)]
         IN IF err = Z_STREAM_END
            THEN AfterLoop(GFree(InflateEnd(z1), {"strm", "strmbuf"}), "stream_end")
            ELSE InflateLoop(z1)
    [] err = Z_BUF_ERROR ->
         LET z1 == GFree(InflateEnd(z), {"strm", "strmbuf"})
         IN IF z.has THEN AfterLoop(z1, "buf_error")
            ELSE Return(GFree(z1, {"compr"}), "buf_error", FALSE)
    [] err = Z_DATA_ERROR /\ z.inits_done = 1 /\ ~z.has /\ IsGzip(z) ->
         LET z1 == GzipHeader(Magic(z))
         IN IF z1.exit # "" THEN z1 ELSE InflateLoop(z1)
    [] err = Z_DATA_ERROR /\ ~z.has /\ z.inits_done <= 3
         /\ ~(z.inits_done = 1 /\ IsGzip(z)) ->
         LET z0 == IF z.inits_done = 1 THEN Magic(z) ELSE z
             z1 == InflateInit2(InflateEnd([z0 EXCEPT !.wbits = -15]))
         IN IF z1.err # Z_OK
            THEN Return(GFree(z1, {"strm", "strmbuf", "compr"}), "reinit_failed", FALSE)
            ELSE InflateLoop(z1)
    [] OTHER ->
         LET z1 == GFree(InflateEnd(z), {"strm", "strmbuf"})
         IN IF ~z.has THEN Return(GFree(z1, {"compr"}), "error", FALSE)
            ELSE AfterLoop(z1, "error")

InflateLoop(z) == Pass(Consumed(z), Inflate(z).err, Inflate(z).out)

\* tvb_uncompress(tvb, offset, comprlen) once tvb_memdup has been called
\* with result d: script and failinit (the number of the inflateInit2 call
\* that fails, 0 for none) drive the decoder, junk is the byte found beyond
\* the scratch copy.  alloc names what g_malloc0 and tvb_memdup handed out.
Uncompressed(d, script, failinit, junk) ==
  LET z0 == [compr |-> d.bytes, comprlen |-> Len(d.bytes), c |-> 0, next |-> 0,
             has |-> FALSE, uncompr |-> <<>>, bytes_out |-> 0, inits_done |-> 0,
             wbits |-> 15, script |-> script, failinit |-> failinit, junk |-> junk,
             err |-> Z_OK, errs |-> <<>>, zlive |-> FALSE, zinits |-> 0, zended |-> 0,
             alloc |-> {"strm"},
             rel |-> [strm |-> 0, compr |-> 0, strmbuf |-> 0],
             reads |-> {}, exit |-> "", ret |-> FALSE]
      z1 == InflateInit2([z0 EXCEPT !.alloc = {"strm", "compr", "strmbuf"}])
  IN IF d.thrown # "none" THEN Return(z0, "thrown", FALSE)
     ELSE IF d.bytes = <<>> THEN Return(GFree(z0, {"strm"}), "no_copy", FALSE)
     ELSE IF z1.err # Z_OK THEN Return(FreeAll(z1), "init_failed", FALSE)
     ELSE InflateLoop(z1)

OverRead(z) == \E i \in z.reads : i >= Len(z.compr)

\* the effect of a call of tvb_uncompress that ran as z: a read beyond the
\* scratch copy either ends the process or goes unnoticed; a call that
\* returns a buffer made it with tvb_new_real_data(uncompr, bytes_out,
\* bytes_out)
Uncompressing(b, offset, comprlen, d, z, crash) ==
  LET nb  == nalloc + 1
      t0  == [tvb EXCEPT ![nb] = tvb_init(TVBUFF_REAL_DATA)]
      st0 == [tvb |-> t0, nfree |-> nfree, fault |-> "none"]
      st1 == IF last_tvb_real # NullTvb THEN tvb_free(st0, last_tvb_real) ELSE st0
      rec == [Call("uncompress", b, IF z.ret THEN nb ELSE NullTvb, offset, comprlen, 0,
                   d.thrown, z.uncompr)
                EXCEPT !.ret = IF z.ret THEN nb ELSE NullTvb, !.quiet = TRUE,
                       !.log = [z EXCEPT !.script = <<>>]]
  IN IF crash /\ OverRead(z)
     THEN /\ fault' = "OutOfBoundsRead"
          /\ last' = [rec EXCEPT !.arg = NullTvb, !.ret = NullTvb, !.exc = "OutOfBoundsRead"]
          /\ UNCHANGED <<tvb, mem, nalloc, nfree, last_tvb_real, last_tvb_subset, held>>
     ELSE IF z.ret
     THEN /\ nalloc' = nb
          /\ fault' = st1.fault
          /\ nfree' = st1.nfree
          /\ tvb' = [st1.tvb EXCEPT ![nb].real_data = [base |-> nb, off |-> 0],
                                    ![nb].length = z.bytes_out,
                                    ![nb].reported_length = ToGuint(z.bytes_out),
                                    ![nb].initialized = TRUE,
                                    ![nb].ds_tvb = nb]
          /\ last_tvb_real' = NullTvb
          /\ mem' = [mem EXCEPT ![nb] = z.uncompr]
          /\ held' = [held EXCEPT ![nb] = 1]
          /\ last' = rec
          /\ UNCHANGED last_tvb_subset
     ELSE /\ fault' = IF d.thrown \in {"StackOverflow", "OutOfBoundsRead"}
                      THEN d.thrown ELSE "none"
          /\ last' = rec
          /\ UNCHANGED <<tvb, mem, nalloc, nfree, last_tvb_real, last_tvb_subset, held>>

\* tvb_uncompress(b, offset, comprlen) with the decoder behaving as one of
\* scripts says
Uncompress(b, offset, comprlen, scripts, failinits, junks) ==
  /\ CanAccess(b)
  /\ nalloc < MaxTvb
  /\ ncalls' = ncalls - 1
  /\ LET d == tvb_memdup(tvb, mem, b, offset, comprlen)
     IN IF d.thrown # "none" \/ d.bytes = <<>>
        THEN Uncompressing(b, offset, comprlen, d, Uncompressed(d, <<>>, 0, 0), FALSE)
        ELSE \E script \in scripts, failinit \in failinits :
               IF OverRead(Uncompressed(d, script, failinit, 0))
               THEN \E junk \in junks, crash \in BOOLEAN :
                      Uncompressing(b, offset, comprlen, d,
                                    Uncompressed(d, script, failinit, junk), crash)
               ELSE Uncompressing(b, offset, comprlen, d,
                                  Uncompressed(d, script, failinit, 0), FALSE)

\* ---------------------------------------------------------------- searching
\* tvb_length_remaining(b, offset)
tvb_length_remaining(t, b, offset) ==
  LET c == compute_offset_length(t, b, offset, -1)
  IN IF c.ok THEN c.len ELSE -1

\* Result of a scan: the exception thrown ("none" when it returned) and the
\* number returned.
Found(thrown, ret) == [thrown |-> thrown, ret |-> ret]

\* position (from 1) of the first byte of haystack that is among needles,
\* 0 for a NULL result
FirstOf(haystack, needles) ==
  LET hits == {i \in 1..Len(haystack) : haystack[i] \in needles}
  IN IF hits = {} THEN 0 ELSE CHOOSE i \in hits : \A j \in hits : i <= j

guint8_find(haystack, needle) == FirstOf(haystack, {needle})

\* needles is a C string: the bytes before its terminator
guint8_pbrk(haystack, needles) == FirstOf(haystack, needles \ {0})

\* limit, from the bytes that remain and maxlength
SearchLimit(tvbufflen, maxlength) ==
  IF maxlength = -1 THEN tvbufflen
  ELSE IF tvbufflen < AsGuint(maxlength) THEN tvbufflen
  ELSE maxlength

\* tvb_find_guint8 (needles a singleton) and tvb_pbrk_guint8: the two differ
\* in the scan of the real data only
RECURSIVE FindIn(_, _, _, _, _, _)
FindIn(t, m, b, offset, maxlength, needles) ==
  LET c == check_offset_length(t, b, offset, 0)
  IN IF ~c.ok THEN Found(c.exc, 0)
     ELSE
       LET limit == SearchLimit(tvb_length_remaining(t, b, c.off), maxlength)
           p == [base |-> t[b].real_data.base, off |-> t[b].real_data.off + c.off]
       IN IF t[b].real_data # NULL
          THEN IF ~InRegion(m, p, limit) THEN Found("OutOfBoundsRead", 0)
               ELSE IF FirstOf(ReadMem(m, p, limit), needles) = 0 THEN Found("none", -1)
               ELSE Found("none", c.off + (FirstOf(ReadMem(m, p, limit), needles) - 1))
          ELSE CASE t[b].type = TVBUFF_SUBSET ->
                      FindIn(t, m, t[b].subset.tvb, c.off - t[b].subset.offset, limit, needles)
                 [] OTHER -> Found(DissectorError, 0)

tvb_find_guint8(t, m, b, offset, maxlength, needle) ==
  FindIn(t, m, b, offset, maxlength, {needle})

tvb_pbrk_guint8(t, m, b, offset, maxlength, needles) ==
  FindIn(t, m, b, offset, maxlength, needles \ {0})

\* a scan that returned or raised r: nothing but the record of it changes
Scanned(op, b, offset, length, bytes, r) ==
  /\ last' = [Call(op, b, NullTvb, offset, length, 0, r.thrown, bytes)
                EXCEPT !.ret = r.ret, !.quiet = TRUE]
  /\ fault' = IF r.thrown \in {"StackOverflow", "OutOfBoundsRead"} THEN r.thrown ELSE "none"
  /\ ncalls' = ncalls - 1
  /\ UNCHANGED <<tvb, mem, nalloc, nfree, last_tvb_real, last_tvb_subset, held>>

\* tvb_find_guint8(b, offset, maxlength, needle)
FindGuint8(b, offset, maxlength, needle) ==
  /\ CanAccess(b)
  /\ Scanned("find_guint8", b, offset, maxlength, <<needle>>,
             tvb_find_guint8(tvb, mem, b, offset, maxlength, needle))

\* tvb_pbrk_guint8(b, offset, maxlength, needles)
PbrkGuint8(b, offset, maxlength, needles) ==
  /\ CanAccess(b)
  /\ Scanned("pbrk_guint8", b, offset, maxlength, needles,
             tvb_pbrk_guint8(tvb, mem, b, offset, maxlength, {needles[i] : i \in 1..Len(needles)}))

\* ------------------------------------------------------------------ strings
\* tvb_strnlen(b, offset, maxlength)
tvb_strnlen(t, m, b, offset, maxlength) ==
  LET c == check_offset_length(t, b, offset, 0)
      r == tvb_find_guint8(t, m, b, c.off, maxlength, 0)
  IN IF ~c.ok THEN Found(c.exc, 0)
     ELSE IF r.thrown # "none" \/ r.ret = -1 THEN r
     ELSE Found("none", r.ret - c.off)

\* buffer with bytes written from its start
Written(buffer, bytes) ==
  [i \in 1..Len(buffer) |-> IF i <= Len(bytes) THEN bytes[i] ELSE buffer[i]]

\* Result of a string copy: the exception thrown, the number returned, the
\* caller's buffer afterwards and *bytes_copied.
Stringz(thrown, ret, buffer, bytes_copied) ==
  [thrown |-> thrown, ret |-> ret, buffer |-> buffer, bytes_copied |-> bytes_copied]

\* the two copies of _tvb_get_nstringz, by what tvb_strnlen returned; limit
\* bytes are at offset, and buffer[limit] is inside buffer when the limit
\* was decreased
CopyStringz(t, m, b, abs_offset, buffer, limit, decreased_max, s) ==
  IF s.thrown # "none" THEN Stringz(s.thrown, 0, buffer, 0)
  ELSE IF s.ret = -1
  THEN LET cp == tvb_memcpy(t, m, b, abs_offset, limit)
       IN IF cp.thrown # "none" THEN Stringz(cp.thrown, 0, buffer, 0)
          ELSE IF decreased_max
          THEN Stringz("none", -1, [Written(buffer, cp.bytes) EXCEPT ![limit + 1] = 0],
                       limit + 1)
          ELSE Stringz("none", -1, Written(buffer, cp.bytes), limit)
  ELSE LET cp == tvb_memcpy(t, m, b, abs_offset, s.ret + 1)
       IN IF cp.thrown # "none" THEN Stringz(cp.thrown, 0, buffer, 0)
          ELSE Stringz("none", s.ret, Written(buffer, cp.bytes), s.ret + 1)

\* _tvb_get_nstringz(b, offset, bufsize, buffer, &bytes_copied), buffer being
\* the bufsize bytes the caller passed
tvb_get_nstringz(t, m, b, offset, bufsize, buffer) ==
  LET c == check_offset_length(t, b, offset, 0)
      len == tvb_length_remaining(t, b, c.off)
      decreased_max == len < bufsize
      limit == IF len < bufsize THEN len ELSE bufsize
  IN IF ~c.ok THEN Stringz(c.exc, 0, buffer, 0)
     ELSE IF bufsize = 0 THEN Stringz(DissectorError, 0, buffer, 0)
     ELSE IF bufsize = 1 THEN Stringz("none", 0, [buffer EXCEPT ![1] = 0], 1)
     ELSE IF len = 0 THEN Stringz(ReportedBoundsError, 0, buffer, 0)
     ELSE IF len = -1 THEN Stringz(DissectorError, 0, buffer, 0)
     ELSE CopyStringz(t, m, b, c.off, buffer, limit, decreased_max,
                      tvb_strnlen(t, m, b, c.off, limit - 1))

\* tvb_get_nstringz(b, offset, bufsize, buffer) into a buffer of bufsize
\* bytes that all hold fill
GetNstringz(b, offset, bufsize, fill) ==
  /\ CanAccess(b)
  /\ LET r == tvb_get_nstringz(tvb, mem, b, offset, bufsize, [i \in 1..bufsize |-> fill])
     IN Scanned("get_nstringz", b, offset, bufsize, r.buffer, r)

\* --------------------------------------------------------------- bit fields
\* An unsigned integer of w bits is the sequence of its bits, the most
\* significant first: the 64-bit values of tvb_get_bits64 are beyond the
\* integers TLC computes with.
Bits(x, w) == [i \in 1..w |-> (x \div (2 ^ (w - i))) % 2]

\* pntohs, pntoh24, pntohl, pntoh64: the bytes in network order
RECURSIVE pntoh(_)
pntoh(bytes) == IF bytes = <<>> THEN <<>> ELSE Bits(Head(bytes), 8) \o pntoh(Tail(bytes))

\* conversion to an unsigned type of w bits: the low bits, zero-extended
Cast(v, w) ==
  [i \in 1..w |-> IF i + Len(v) - w >= 1 THEN v[i + Len(v) - w] ELSE 0]

BitAnd(a, b) == [i \in 1..Len(a) |-> a[i] * b[i]]
BitOr(a, b) == [i \in 1..Len(a) |-> IF a[i] + b[i] > 0 THEN 1 ELSE 0]
Shr(v, k) == [i \in 1..Len(v) |-> IF i <= k THEN 0 ELSE v[i - k]]
Shl(v, k) == [i \in 1..Len(v) |-> IF i + k <= Len(v) THEN v[i + k] ELSE 0]

\* bit_mask8, bit_mask16, bit_mask32, bit_mask64 at index bit_offset
bit_mask_Full(w, bit_offset) == [i \in 1..w |-> 1]
bit_mask(w, bit_offset) == [i \in 1..w |-> IF i <= bit_offset THEN 0 ELSE 1]

\* Result of an integer read: the exception thrown and the value.
Value(thrown, bits) == [thrown |-> thrown, bits |-> bits]

\* tvb_get_guint8, tvb_get_ntohs, tvb_get_ntoh24, tvb_get_ntohl,
\* tvb_get_ntoh64 by the number of bytes read
tvb_get_ntoh(t, m, b, offset, size, u) ==
  Value(Deref(fast_ensure_contiguous(t, m, b, offset, size, u)).thrown,
        pntoh(Deref(fast_ensure_contiguous(t, m, b, offset, size, u)).bytes))

\* the value of tvb_get_bits8 from the octets read
Bits8Of(r, bit_offset, tot_no_bits) ==
  IF r.thrown # "none" THEN Value(r.thrown, <<>>)
  ELSE IF tot_no_bits <= 8
  THEN Value("none", Cast(Shr(Cast(BitAnd(r.bits, bit_mask(8, bit_offset)), 16),
                              8 - tot_no_bits), 8))
  ELSE Value("none", Cast(Shr(BitAnd(r.bits, bit_mask(16, bit_offset)),
                              16 - tot_no_bits), 8))

\* tvb_get_bits8(b, bit_offset, no_of_bits)
tvb_get_bits8(t, m, b, bit_offset, no_of_bits, u) ==
  IF no_of_bits > 8 THEN Value(DissectorError, <<>>)
  ELSE Bits8Of(tvb_get_ntoh(t, m, b, bit_offset \div 8,
                            IF (bit_offset % 8) + no_of_bits <= 8 THEN 1 ELSE 2, u),
               bit_offset % 8, (bit_offset % 8) + no_of_bits)

\* the value of tvb_get_bits16, 32 and 64 (w the width of the type) from
\* the w / 8 octets read first (r) and the octet after them (next)
BitsOf(w, r, next, bit_offset, tot_no_bits) ==
  IF r.thrown # "none" THEN Value(r.thrown, <<>>)
  ELSE IF tot_no_bits < w
  THEN Value("none", Shr(BitAnd(r.bits, bit_mask(w, bit_offset)), w - tot_no_bits))
  ELSE IF tot_no_bits > w
  THEN IF next.thrown # "none" THEN Value(next.thrown, <<>>)
       ELSE Value("none", BitOr(Shl(BitAnd(r.bits, bit_mask(w, bit_offset)), tot_no_bits - w),
                                Shr(Cast(next.bits, w), (w + 8) - tot_no_bits)))
  ELSE Value("none", BitAnd(r.bits, bit_mask(w, bit_offset)))

\* the body the three wider accessors share, after their range assertion
GetBitsWide(t, m, b, bit_offset, no_of_bits, w, u) ==
  BitsOf(w, tvb_get_ntoh(t, m, b, bit_offset \div 8, w \div 8, u),
         tvb_get_ntoh(t, m, b, (bit_offset \div 8) + (w \div 8), 1, u),
         bit_offset % 8, (bit_offset % 8) + no_of_bits)

\* tvb_get_bits16(b, bit_offset, no_of_bits, FALSE)
tvb_get_bits16(t, m, b, bit_offset, no_of_bits, u) ==
  IF no_of_bits < 8 \/ no_of_bits > 16 THEN Value(DissectorError, <<>>)
  ELSE GetBitsWide(t, m, b, bit_offset, no_of_bits, 16, u)

\* tvb_get_bits32(b, bit_offset, no_of_bits, FALSE)
tvb_get_bits32(t, m, b, bit_offset, no_of_bits, u) ==
  IF no_of_bits < 17 \/ no_of_bits > 32 THEN Value(DissectorError, <<>>)
  ELSE GetBitsWide(t, m, b, bit_offset, no_of_bits, 32, u)

\* tvb_get_bits64(b, bit_offset, no_of_bits, FALSE)
tvb_get_bits64(t, m, b, bit_offset, no_of_bits, u) ==
  IF no_of_bits < 32 \/ no_of_bits > 64 THEN Value(DissectorError, <<>>)
  ELSE GetBitsWide(t, m, b, bit_offset, no_of_bits, 64, u)

\* a bit-field read that returned or raised r
BitsRead(op, b, bit_offset, no_of_bits, r) ==
  /\ last' = [Call(op, b, NullTvb, bit_offset, no_of_bits, 0, r.thrown, <<>>)
                EXCEPT !.log = r.bits, !.quiet = TRUE]
  /\ fault' = IF r.thrown \in {"StackOverflow", "OutOfBoundsRead"} THEN r.thrown ELSE "none"
  /\ ncalls' = ncalls - 1
  /\ UNCHANGED <<tvb, mem, nalloc, nfree, last_tvb_real, last_tvb_subset, held>>

GetBits8(b, bit_offset, no_of_bits) ==
  /\ CanAccess(b)
  /\ \E u \in UninitChoices(tvb, mem, b, bit_offset \div 8, 1) :
       BitsRead("get_bits8", b, bit_offset, no_of_bits,
                tvb_get_bits8(tvb, mem, b, bit_offset, no_of_bits, u))

GetBits16(b, bit_offset, no_of_bits) ==
  /\ CanAccess(b)
  /\ \E u \in UninitChoices(tvb, mem, b, bit_offset \div 8, 2) :
       BitsRead("get_bits16", b, bit_offset, no_of_bits,
                tvb_get_bits16(tvb, mem, b, bit_offset, no_of_bits, u))

GetBits32(b, bit_offset, no_of_bits) ==
  /\ CanAccess(b)
  /\ \E u \in UninitChoices(tvb, mem, b, bit_offset \div 8, 4) :
       BitsRead("get_bits32", b, bit_offset, no_of_bits,
                tvb_get_bits32(tvb, mem, b, bit_offset, no_of_bits, u))

GetBits64(b, bit_offset, no_of_bits) ==
  /\ CanAccess(b)
  /\ \E u \in UninitChoices(tvb, mem, b, bit_offset \div 8, 8) :
       BitsRead("get_bits64", b, bit_offset, no_of_bits,
                tvb_get_bits64(tvb, mem, b, bit_offset, no_of_bits, u))

\* -------------------------------------------------------------------- lines
CR == 13
LF == 10

\* Result of tvb_find_line_end: the exception thrown, the number returned
\* and *next_offset, which is written only when set.
Line(thrown, ret, set, next_offset) ==
  [thrown |-> thrown, ret |-> ret, set |-> set, next_offset |-> next_offset]

\* tvb_get_guint8(b, offset) as a result of a scan
ByteOf(d) == IF d.thrown # "none" THEN Found(d.thrown, 0) ELSE Found("none", d.bytes[1])

tvb_get_guint8(t, m, b, offset, u) ==
  ByteOf(Deref(fast_ensure_contiguous(t, m, b, offset, 1, u)))

\* the part of tvb_find_line_end after a CR or LF was found at eol_offset:
\* first is the byte there and second the byte after it
LineEndAt(offset, eob_offset, eol_offset, desegment, first, second) ==
  IF first.thrown # "none" THEN Line(first.thrown, 0, FALSE, 0)
  ELSE IF first.ret = CR
  THEN IF eol_offset + 1 >= eob_offset
       THEN IF desegment THEN Line("none", -1, FALSE, 0)
            ELSE Line("none", eol_offset - offset, TRUE, eol_offset + 1)
       ELSE IF second.thrown # "none" THEN Line(second.thrown, 0, FALSE, 0)
       ELSE IF second.ret = LF THEN Line("none", eol_offset - offset, TRUE, eol_offset + 2)
       ELSE Line("none", eol_offset - offset, TRUE, eol_offset + 1)
  ELSE Line("none", eol_offset - offset, TRUE, eol_offset + 1)

\* tvb_find_line_end with len already replaced by the remaining length when
\* it was -1; eol is what tvb_pbrk_guint8 found
LineEnd(t, m, b, offset, len, desegment, u, eol) ==
  IF eol.thrown # "none" THEN Line(eol.thrown, 0, FALSE, 0)
  ELSE IF eol.ret = -1
  THEN IF desegment THEN Line("none", -1, FALSE, 0)
       ELSE Line("none", (offset + len) - offset, TRUE, offset + len)
  ELSE LineEndAt(offset, offset + len, eol.ret, desegment,
                 tvb_get_guint8(t, m, b, eol.ret, u),
                 tvb_get_guint8(t, m, b, eol.ret + 1, u))

\* tvb_find_line_end(b, offset, len, &next_offset, desegment)
tvb_find_line_end(t, m, b, offset, len, desegment, u) ==
  LineEnd(t, m, b, offset,
          IF len = -1 THEN tvb_length_remaining(t, b, offset) ELSE len,
          desegment, u,
          tvb_pbrk_guint8(t, m, b, offset,
                          IF len = -1 THEN tvb_length_remaining(t, b, offset) ELSE len,
                          {CR, LF}))

\* a search for the end of a line that returned or raised r
LineRead(b, offset, len, desegment, r) ==
  /\ last' = [Call("find_line_end", b, NullTvb, offset, len, 0, r.thrown, <<>>)
                EXCEPT !.ret = r.ret, !.quiet = TRUE,
                       !.log = [desegment |-> desegment, set |-> r.set,
                                next_offset |-> r.next_offset]]
  /\ fault' = IF r.thrown \in {"StackOverflow", "OutOfBoundsRead"} THEN r.thrown ELSE "none"
  /\ ncalls' = ncalls - 1
  /\ UNCHANGED <<tvb, mem, nalloc, nfree, last_tvb_real, last_tvb_subset, held>>

FindLineEnd(b, offset, len, desegment) ==
  /\ CanAccess(b)
  /\ \E u \in UninitChoices(tvb, mem, b, offset, 1) :
       LineRead(b, offset, len, desegment,
                tvb_find_line_end(tvb, mem, b, offset, len, desegment, u))

\* ------------------------------------------------------------ unquoted lines
QUOTE == 34
BACKSLASH == 92

\* Result of tvb_find_line_end_unquoted: as Line, and reach, the offset
\* after the last byte a search or a read looked at
Unquoted(thrown, ret, set, next_offset, reach) ==
  [thrown |-> thrown, ret |-> ret, set |-> set, next_offset |-> next_offset,
   reach |-> reach]

Max(a, b) == IF a >= b THEN a ELSE b

\* the offset after the last byte that a search from cur_offset over at
\* most len bytes looked at, found being its result
ScanEnd(t, b, cur_offset, len, found) ==
  IF found.ret # -1 THEN found.ret + 1
  ELSE check_offset_length(t, b, cur_offset, 0).off
         + SearchLimit(tvb_length_remaining(t, b, cur_offset), len)

\* the CR at char_offset and the byte after it, when that lies before
\* eob_offset
UnquotedCR(offset, eob_offset, char_offset, second, reach) ==
  IF char_offset + 1 < eob_offset
  THEN IF second.thrown # "none" THEN Unquoted(second.thrown, 0, FALSE, 0, reach)
       ELSE IF second.ret = LF
       THEN Unquoted("none", char_offset - offset, TRUE, char_offset + 2,
                     Max(reach, char_offset + 2))
       ELSE Unquoted("none", char_offset - offset, TRUE, char_offset + 1,
                     Max(reach, char_offset + 2))
  ELSE Unquoted("none", char_offset - offset, TRUE, char_offset + 1, reach)

RECURSIVE UnquotedLoop(_, _, _, _, _, _, _, _, _)
\* the end of one turn of the loop: cur_offset = char_offset + 1
UnquotedAdvance(t, m, b, offset, len, u, cur_offset, is_quoted, reach) ==
  IF cur_offset >= offset + len
  THEN Unquoted("none", (offset + len) - offset, TRUE, offset + len, reach)
  ELSE UnquotedLoop(t, m, b, offset, len, u, cur_offset, is_quoted, reach)

\* one turn of the loop after its search returned found; c is the byte at
\* the offset found
UnquotedTurn(t, m, b, offset, len, u, is_quoted, reach, found, c) ==
  IF found.thrown # "none" THEN Unquoted(found.thrown, 0, FALSE, 0, reach)
  ELSE IF found.ret = -1
  THEN Unquoted("none", (offset + len) - offset, TRUE, offset + len, reach)
  ELSE IF is_quoted
  THEN UnquotedAdvance(t, m, b, offset, len, u, found.ret + 1, FALSE, reach)
  ELSE IF c.thrown # "none" THEN Unquoted(c.thrown, 0, FALSE, 0, reach)
  ELSE IF c.ret = QUOTE
  THEN UnquotedAdvance(t, m, b, offset, len, u, found.ret + 1, TRUE, reach)
  ELSE IF c.ret = CR
  THEN UnquotedCR(offset, offset + len, found.ret,
                  tvb_get_guint8(t, m, b, found.ret + 1, u), reach)
  ELSE Unquoted("none", found.ret - offset, TRUE, found.ret + 1, reach)

\* the search of one turn: for the closing quote inside a quoted string,
\* for a CR, an LF or a quote outside, both over len bytes from cur_offset
UnquotedSearch(t, m, b, cur_offset, len, is_quoted) ==
  IF is_quoted THEN tvb_find_guint8(t, m, b, cur_offset, len, QUOTE)
  ELSE tvb_pbrk_guint8(t, m, b, cur_offset, len, {CR, LF, QUOTE})

UnquotedFound(t, m, b, offset, len, u, cur_offset, is_quoted, reach, found) ==
  UnquotedTurn(t, m, b, offset, len, u, is_quoted,
               IF found.thrown # "none" THEN reach
               ELSE Max(reach, ScanEnd(t, b, cur_offset, len, found)),
               found, tvb_get_guint8(t, m, b, found.ret, u))

UnquotedLoop(t, m, b, offset, len, u, cur_offset, is_quoted, reach) ==
  UnquotedFound(t, m, b, offset, len, u, cur_offset, is_quoted, reach,
                UnquotedSearch(t, m, b, cur_offset, len, is_quoted))

\* tvb_find_line_end_unquoted(b, offset, len, &next_offset)
tvb_find_line_end_unquoted(t, m, b, offset, len, u) ==
  UnquotedLoop(t, m, b, offset,
               IF len = -1 THEN tvb_length_remaining(t, b, offset) ELSE len,
               u, offset, FALSE, 0)

\* a search for the end of an unquoted line that returned or raised r
UnquotedRead(b, offset, len, r) ==
  /\ last' = [Call("find_line_end_unquoted", b, NullTvb, offset, len, 0, r.thrown, <<>>)
                EXCEPT !.ret = r.ret, !.quiet = TRUE,
                       !.log = [set |-> r.set, next_offset |-> r.next_offset,
                                reach |-> r.reach]]
  /\ fault' = IF r.thrown \in {"StackOverflow", "OutOfBoundsRead"} THEN r.thrown ELSE "none"
  /\ ncalls' = ncalls - 1
  /\ UNCHANGED <<tvb, mem, nalloc, nfree, last_tvb_real, last_tvb_subset, held>>

FindLineEndUnquoted(b, offset, len) ==
  /\ CanAccess(b)
  /\ \E u \in UninitChoices(tvb, mem, b, offset, 1) :
       UnquotedRead(b, offset, len,
                    tvb_find_line_end_unquoted(tvb, mem, b, offset, len, u))

\* ---------------------------------------------------------------- tty lines
\* tvb_reported_length_remaining(b, offset)
tvb_reported_length_remaining(t, b, offset) ==
  LET c == compute_offset_length(t, b, offset, -1)
  IN IF c.ok
     THEN IF t[b].reported_length >= c.off THEN t[b].reported_length - c.off ELSE -1
     ELSE -1

\* tvb_ensure_bytes_exist(b, offset, length): the exception it throws
tvb_ensure_bytes_exist(t, b, offset, length) ==
  IF length < 0 THEN ReportedBoundsError
  ELSE IF ~check_offset_length(t, b, offset, length).ok
  THEN check_offset_length(t, b, offset, length).exc
  ELSE "none"

\* tvb_get_ephemeral_string(b, offset, length): the resolver's result, with
\* the exception of the check before it
tvb_get_ephemeral_string(t, m, b, offset, length, u) ==
  IF tvb_ensure_bytes_exist(t, b, offset, length) # "none"
  THEN Resolved(tvb_ensure_bytes_exist(t, b, offset, length), NULL, "none", 0, t, m)
  ELSE ensure_contiguous(t, m, b, offset, length, u)

\* The loop of dissect_tty_lines is followed in last: offset is the
\* dissector's offset, log.pc its position ("loop" at the head of the
\* loop, "done" after it, "raised" when an exception left it) and log.lines
\* its count of lines, kept up to 2: the code tells 0, 1 and more apart.
InTty == last.op = "dissect_tty_lines" /\ last.log.pc = "loop"

\* dissect_tty_lines(b, pinfo, tree, offset) up to the head of its loop
DissectTtyLines(b, offset) ==
  /\ CanAccess(b)
  /\ ~InTty
  /\ ncalls' = ncalls - 1
  /\ last' = [Call("dissect_tty_lines", b, NullTvb, offset, 0, 0, "none", <<>>)
                EXCEPT !.log = [pc |-> "loop", lines |-> 0]]
  /\ UNCHANGED <<tvb, mem, nalloc, nfree, last_tvb_real, last_tvb_subset, held, fault>>

\* the loop is left, by its test or by the exception exc
TtyLeft(pc, exc) ==
  /\ last' = [last EXCEPT !.log.pc = pc, !.exc = exc, !.quiet = TRUE]
  /\ fault' = IF exc \in {"StackOverflow", "OutOfBoundsRead"} THEN exc ELSE "none"
  /\ UNCHANGED <<tvb, mem>>

\* the body of the loop, line being what tvb_find_line_end_unquoted
\* returned and string the line's bytes
TtyBody(line, string, d) ==
  IF line.thrown # "none" THEN TtyLeft("raised", line.thrown)
  ELSE IF d.thrown # "none" THEN TtyLeft("raised", d.thrown)
  ELSE /\ last' = [last EXCEPT !.offset = line.next_offset,
                               !.bytes = d.bytes,
                               !.ret = line.ret,
                               !.log.lines = Min(@ + 1, 2)]
       /\ tvb' = string.tvb
       /\ mem' = string.mem
       /\ fault' = "none"

\* one turn of the loop: the line found from offset and its bytes
TtyTurn(b, offset, u) ==
  \E line \in {tvb_find_line_end_unquoted(tvb, mem, b, offset, -1, u)} :
    \E string \in {tvb_get_ephemeral_string(tvb, mem, b, offset, line.ret, u)} :
      \E d \in {Deref(string)} : TtyBody(line, string, d)

\* one test of the loop's condition and, when it holds, one turn of the loop
TtyLine ==
  /\ InTty
  /\ fault = "none"
  /\ IF tvb_reported_length_remaining(tvb, last.tvb, last.offset) > 0
     THEN \E u \in UninitChoices(tvb, mem, last.tvb, last.offset, 1) :
            TtyTurn(last.tvb, last.offset, u)
     ELSE TtyLeft("done", "none")
  /\ UNCHANGED <<nalloc, nfree, last_tvb_real, last_tvb_subset, held, ncalls>>

\* ------------------------------------------------------------ outhdr values
MAX_OUTHDR_VALUES == 32
\* struct fp_info and the channel numbers are declared in packet-umts_fp.h
MAX_FP_CHANS == 64
MAX_EDCH_DDIS == 16
CHANNEL_HSDSCH == 13
CHANNEL_EDCH == 17

\* The statics outhdr_values and outhdr_values_found are followed in
\* last.log of a parse_outhdr_string or attach_fp_info record; before the
\* first call they are zero.
Outhdr(values, found) == [outhdr_values |-> values, outhdr_values_found |-> found]
OuthdrOf(l) ==
  IF l.op \in {"parse_outhdr_string", "attach_fp_info"}
  THEN Outhdr(l.log.outhdr_values, l.log.outhdr_values_found)
  ELSE Outhdr([i \in 1..MAX_OUTHDR_VALUES |-> 0], 0)

isdigit(c) == c \in 48..57

\* strlen(s) for the bytes s at a pointer: -1 when no NUL is among them
strlen(s) ==
  IF \E i \in 1..Len(s) : s[i] = 0
  THEN (CHOOSE i \in 1..Len(s) : s[i] = 0 /\ \A j \in 1..(i - 1) : s[j] # 0) - 1
  ELSE -1

\* atoi of a string of digits
RECURSIVE atoi(_)
atoi(s) == IF s = <<>> THEN 0 ELSE 10 * atoi(SubSeq(s, 1, Len(s) - 1)) + (s[Len(s)] - 48)

\* the inner loop of parse_outhdr_string from digits on: the number of
\* digits found, or -1 when outhdr_string[n] lies after the bytes at the
\* pointer
RECURSIVE FindDigits(_, _, _, _)
FindDigits(s, len, n, digits) ==
  IF digits >= len THEN digits
  ELSE IF n >= Len(s) THEN -1
  ELSE IF ~isdigit(s[n + 1]) THEN digits
  ELSE FindDigits(s, len, n + 1, digits + 1)

\* the outer loop of parse_outhdr_string from position n on, digits being
\* what the inner loop found from n
RECURSIVE PopulateValues(_, _, _, _)
ValueFound(s, len, o, n, digits) ==
  IF digits = -1 THEN [thrown |-> "OutOfBoundsRead", outhdr |-> o]
  ELSE IF digits = 0 THEN [thrown |-> "none", outhdr |-> o]
  ELSE PopulateValues(s, len,
                      Outhdr([o.outhdr_values EXCEPT ![o.outhdr_values_found + 1] =
                                atoi(SubSeq(s, n + 1, n + digits))],
                             o.outhdr_values_found + 1),
                      n + digits + 1)

PopulateValues(s, len, o, n) ==
  IF o.outhdr_values_found >= MAX_OUTHDR_VALUES THEN [thrown |-> "none", outhdr |-> o]
  ELSE ValueFound(s, len, o, n, FindDigits(s, len, n, 0))

\* parse_outhdr_string(outhdr_string), s being the bytes at the pointer and
\* o the statics before the call
parse_outhdr_string(s, o) ==
  IF strlen(s) = -1 THEN [thrown |-> "OutOfBoundsRead", outhdr |-> o]
  ELSE PopulateValues(s, strlen(s), Outhdr(o.outhdr_values, 0), 0)

\* a call on the statics that returned or raised r
OuthdrCall(op, b, r, reads, written) ==
  /\ last' = [Call(op, b, NullTvb, 0, 0, 0, r.thrown, <<>>)
                EXCEPT !.log = [outhdr_values |-> r.outhdr.outhdr_values,
                                outhdr_values_found |-> r.outhdr.outhdr_values_found,
                                reads |-> reads, written |-> written]]
  /\ fault' = IF r.thrown \in {"OutOfBoundsRead", "OutOfBoundsWrite"} THEN r.thrown ELSE "none"
  /\ ncalls' = ncalls - 1
  /\ UNCHANGED <<tvb, mem, nalloc, nfree, last_tvb_real, last_tvb_subset, held>>

NothingWritten ==
  [chan_tf_size |-> 0, chan_num_tbs |-> 0, edch_ddi |-> 0, edch_macd_pdu_size |-> 0]

\* parse_outhdr_string over the bytes of the Real buffer b
ParseOuthdrString(b) ==
  /\ CanAccess(b)
  /\ tvb[b].type = TVBUFF_REAL_DATA
  /\ \E r \in {parse_outhdr_string(mem[b], OuthdrOf(last))} :
       OuthdrCall("parse_outhdr_string", b, r, 0, NothingWritten)

\* p_fp_info->release by protocol_name, 0 for a name that is not known
Release(protocol_name) ==
  CASE protocol_name = "fp" -> 99
    [] protocol_name = "fp_r4" -> 4
    [] protocol_name = "fp_r5" -> 5
    [] protocol_name = "fp_r6" -> 6
    [] protocol_name = "fp_r7" -> 7
    [] protocol_name = "fpiur_r5" -> 5
    [] OTHER -> 0

\* Result of attach_fp_info: the exception or fault, reads the number of
\* leading elements of outhdr_values it read (one more than the highest
\* index), and written the same of each array of p_fp_info.
Attached(thrown, reads, written) == [thrown |-> thrown, reads |-> reads, written |-> written]

\* the two loops over num_chans channels, i being tf_start; a read at or
\* after MAX_OUTHDR_VALUES ends the call
ChannelLoops(i, num_chans) ==
  IF num_chans <= 0 THEN Attached("none", i, NothingWritten)
  ELSE IF i + num_chans > MAX_OUTHDR_VALUES
  THEN Attached("OutOfBoundsRead", MAX_OUTHDR_VALUES + 1,
                [NothingWritten EXCEPT !.chan_tf_size = MAX_OUTHDR_VALUES - i])
  ELSE IF i + 2 * num_chans > MAX_OUTHDR_VALUES
  THEN Attached("OutOfBoundsRead", MAX_OUTHDR_VALUES + 1,
                [NothingWritten EXCEPT !.chan_tf_size = num_chans,
                                       !.chan_num_tbs = MAX_OUTHDR_VALUES - (i + num_chans)])
  ELSE Attached("none", i + 2 * num_chans,
                [NothingWritten EXCEPT !.chan_tf_size = num_chans,
                                       !.chan_num_tbs = num_chans])

\* the two loops over no_ddi_entries, i being the index after that of
\* no_ddi_entries; a write at or after MAX_EDCH_DDIS, or a read at or after
\* MAX_OUTHDR_VALUES, ends the call
DdiLoops(i, no_ddi_entries) ==
  IF no_ddi_entries <= 0 THEN Attached("none", i, NothingWritten)
  ELSE IF no_ddi_entries > MAX_EDCH_DDIS
  THEN Attached("OutOfBoundsWrite", i + MAX_EDCH_DDIS + 1,
                [NothingWritten EXCEPT !.edch_ddi = MAX_EDCH_DDIS + 1])
  ELSE IF i + 2 * no_ddi_entries > MAX_OUTHDR_VALUES
  THEN Attached("OutOfBoundsRead", MAX_OUTHDR_VALUES + 1,
                [NothingWritten EXCEPT !.edch_ddi = no_ddi_entries,
                                       !.edch_macd_pdu_size =
                                           MAX_OUTHDR_VALUES - (i + no_ddi_entries)])
  ELSE Attached("none", i + 2 * no_ddi_entries,
                [NothingWritten EXCEPT !.edch_ddi = no_ddi_entries,
                                       !.edch_macd_pdu_size = no_ddi_entries])

\* attach_fp_info from the read of the DCH CRC flag on, i being its index
AttachChannels(v, channel, i) ==
  IF channel # CHANNEL_EDCH
  THEN ChannelLoops(i + 3, v[i + 3])
  ELSE DdiLoops(i + 4, v[i + 4])

\* attach_fp_info(pinfo, received, protocol_name, variant) for a packet
\* without FP info yet, over the statics o
attach_fp_info(o, protocol_name) ==
  LET v == o.outhdr_values
      release == Release(protocol_name)
      i == (IF release = 7 THEN 3 ELSE 2)
             + (IF v[1] = CHANNEL_HSDSCH /\ release = 7 THEN 1 ELSE 0)
  IN IF (protocol_name = "fpiur_r5" /\ o.outhdr_values_found # 2)
          \/ o.outhdr_values_found < 5
     THEN Attached("none", 0, NothingWritten)
     ELSE IF release = 0 THEN Attached(DissectorError, 0, NothingWritten)
     ELSE IF protocol_name = "fpiur_r5" THEN Attached("none", i, NothingWritten)
     ELSE AttachChannels(v, v[1], i)

AttachFpInfo(protocol_name) ==
  /\ Running
  /\ last.op = "parse_outhdr_string"
  /\ \E a \in {attach_fp_info(OuthdrOf(last), protocol_name)} :
       OuthdrCall("attach_fp_info", last.tvb,
                  [thrown |-> a.thrown, outhdr |-> OuthdrOf(last)], a.reads, a.written)

\* --------------------------------------------------------- specifications
\* The life cycle: construction, linkage and release.
Next ==
  \/ \E p \in {NullTvb} \cup Tvb, r \in {-2, -1} : NewReal(p, MaxLen, r)
  \/ \E bk \in Tvb, o \in {0, MaxLen + 1}, r \in {-2, -1} : NewSubset(bk, o, -1, r)
  \/ NewComposite
  \/ \E c \in Tvb, m \in Tvb : CompositeAppend(c, m)
  \/ \E c \in Tvb, m \in Tvb : CompositePrepend(c, m)
  \/ \E c \in Tvb : CompositeFinalize(c)
  \/ \E b \in Tvb : Free(b)
  \/ \E b \in Tvb : FreeChain(b)

Spec == Init /\ [][Next]_vars

\* The arguments the other two specifications draw from.
RealLengths == {MaxLen}
\* reported_length of new_real: below the captured length, and beyond it
RealReported == {MaxLen - 1, MaxRep}
\* (backing_offset, backing_length, reported_length) of new_subset: the
\* whole backing, its tail, a prefix with a longer reported length, and the
\* empty window at its end
Subsets == {<<0, -1, -1>>, <<1, -1, -1>>, <<0, 1, MaxRep>>, <<MaxLen, 0, MaxRep>>}
NewReported == (MaxLen - 1)..MaxLen
QueryOffsets == {0, 1, MaxLen, MaxLen + 1}

\* construction from top-level data with the given reported lengths and
\* subset windows
Construct(reported, windows) ==
  \/ \E l \in RealLengths, r \in reported : NewReal(NullTvb, l, r)
  \/ \E bk \in Tvb, s \in windows : NewSubset(bk, s[1], s[2], s[3])
  \/ NewComposite
  \/ \E c \in Tvb, m \in Tvb : CompositeAppend(c, m)
  \/ \E c \in Tvb : CompositeFinalize(c)

\* Lengths: construction and set_reported_length.
NextLength ==
  \/ Construct(RealReported, Subsets)
  \/ \E c \in Tvb, m \in Tvb : CompositePrepend(c, m)
  \/ \E b \in Tvb, r \in NewReported : SetReportedLength(b, r)
  \/ \E b \in Tvb, o \in QueryOffsets, l \in {0, 1} : BytesExist(b, o, l)
  \/ \E b \in Tvb, o \in QueryOffsets : OffsetExists(b, o)

InitLength == InitWith(MaxLengthCalls)

SpecLength == InitLength /\ [][NextLength]_vars

\* Access: construction and the reads.  The buffers read are top-level data
\* reported longer than captured, windows into any buffer, and composites
\* built by appending.
AccessSubsets == {<<0, -1, -1>>, <<1, -1, -1>>, <<0, 1, MaxRep>>}
Offsets == {0, 1, MaxLen, MaxLen + 1}
Lengths == {0, 1, MaxLen, MaxRep + 1}
UintSizes == {1, 2, 3, 4, 8}

NextAccess ==
  \/ Construct({MaxRep}, AccessSubsets)
  \/ \E b \in Tvb, o \in Offsets, l \in Lengths : GetPtr(b, o, l)
  \/ \E b \in Tvb, o \in Offsets, l \in UintSizes : GetUint(b, o, l)
  \/ \E b \in Tvb, o \in Offsets, l \in Lengths : Memcpy(b, o, l)

InitAccess == InitWith(MaxAccessCalls)

SpecAccess == InitAccess /\ [][NextAccess]_vars

\* Decompression: one captured buffer holding a gzip header cut off at any
\* point (or a stream of another kind), and one call of tvb_uncompress on
\* it for every behaviour of the decoder up to MaxPasses passes.
GzipFull(flags) ==
  <<GZIP_ID1, GZIP_ID2, Z_DEFLATED, flags, 0, 0, 0, 0, 0, 0>>
    \o (IF HasFlag(flags, FEXTRA) THEN <<2, 0>> ELSE <<>>)
    \o (IF HasFlag(flags, FNAME) THEN <<65, 0>> ELSE <<>>)
    \o (IF HasFlag(flags, FCOMMENT) THEN <<66, 0>> ELSE <<>>)
    \o <<99>>
GzipFlags == {x + (y + z) : x \in {0, FEXTRA}, y \in {0, FNAME}, z \in {0, FCOMMENT}}
Prefixes(s) == {SubSeq(s, 1, n) : n \in 2..Len(s)}
Streams ==
  UNION {Prefixes(GzipFull(f)) : f \in GzipFlags}
    \cup {<<GZIP_ID1, GZIP_ID2, 0, 0>>, <<120, 1, 99>>}
Results ==
  {Inflated(Z_OK, <<7>>), Inflated(Z_STREAM_END, <<7>>), Inflated(Z_STREAM_END, <<>>),
   Inflated(Z_BUF_ERROR, <<>>), Inflated(Z_DATA_ERROR, <<>>), Inflated(Z_MEM_ERROR, <<>>)}
Scripts == UNION {[1..n -> Results] : n \in 0..MaxPasses}
FailInits == 0..2
Junk == {0, Z_DEFLATED}

\* the header tvb_new_real_data(data, Len(data), Len(data)) leaves
RealOver(b, data) ==
  [tvb_init(TVBUFF_REAL_DATA) EXCEPT !.real_data = [base |-> b, off |-> 0],
                                     !.length = Len(data),
                                     !.reported_length = Len(data),
                                     !.initialized = TRUE,
                                     !.ds_tvb = b]

\* the state after tvb_new_real_data(data, Len(data), Len(data)) as the
\* first call
InitOver(data, calls) ==
  /\ tvb = [b \in Tvb |-> IF b = 1 THEN RealOver(b, data) ELSE tvb_init("NONE")]
  /\ nalloc = 1
  /\ nfree = [b \in Tvb |-> 0]
  /\ mem = [b \in Tvb |-> IF b = 1 THEN data ELSE <<>>]
  /\ last_tvb_real = NullTvb
  /\ last_tvb_subset = NullTvb
  /\ held = [b \in Tvb |-> IF b = 1 THEN 1 ELSE 0]
  /\ fault = "none"
  /\ ncalls = calls
  /\ last = Call("new_real", 1, NullTvb, 0, Len(data), Len(data), "none", <<>>)

NextUncompress ==
  \E b \in Tvb, over \in {0, 1} :
    Uncompress(b, 0, tvb[b].length + over, Scripts, FailInits, Junk)

InitUncompress == \E data \in Streams : InitOver(data, MaxUncompressCalls)

SpecUncompress == InitUncompress /\ [][NextUncompress]_vars

\* Searching: one captured buffer over every short text, views and
\* composites of it, and the two searches.
Texts(alphabet) == UNION {[1..n -> alphabet] : n \in 0..MaxData}
ScanWindows == {<<1, -1, -1>>}
ScanOffsets == {-1, 0, 1, MaxData + 1}
ScanLengths == {-1, 0, 1, MaxData + 1}
Views ==
  \/ \E bk \in Tvb, s \in ScanWindows : NewSubset(bk, s[1], s[2], s[3])
  \/ NewComposite
  \/ \E c \in Tvb, mb \in Tvb : CompositeAppend(c, mb)
  \/ \E c \in Tvb : CompositeFinalize(c)

NextFind ==
  \/ Views
  \/ \E b \in Tvb, o \in ScanOffsets, l \in ScanLengths : FindGuint8(b, o, l, 65)
  \/ \E b \in Tvb, o \in ScanOffsets, l \in ScanLengths : PbrkGuint8(b, o, l, <<65, 67>>)

InitFind == \E data \in Texts({65, 66}) : InitOver(data, MaxScanCalls)

SpecFind == InitFind /\ [][NextFind]_vars

\* Strings: one captured buffer over every short text of letters and NULs,
\* views and composites of it, and the bounded string copy.
NextString ==
  \/ Views
  \/ \E b \in Tvb, o \in ScanOffsets, n \in 0..(MaxData + 1), fill \in {0, 85} :
       GetNstringz(b, o, n, fill)

InitString == \E data \in Texts({0, 65}) : InitOver(data, MaxScanCalls)

SpecString == InitString /\ [][NextString]_vars

\* Bit fields: one captured buffer over a prefix of a bit pattern, views of
\* it, and the four accessors at every bit offset up to
\* MaxBitOffset, with every width of their declared range and the width
\* just above it.
Pattern == <<165, 60, 240, 15, 129, 126, 85, 170, 195, 90>>
BitTexts == {SubSeq(Pattern, 1, n) : n \in 0..Len(Pattern)}
BitOffsets == 0..MaxBitOffset

NextBits ==
  \/ \E bk \in Tvb, s \in ScanWindows : NewSubset(bk, s[1], s[2], s[3])
  \/ \E b \in Tvb, o \in BitOffsets, n \in 1..9 : GetBits8(b, o, n)
  \/ \E b \in Tvb, o \in BitOffsets, n \in 8..17 : GetBits16(b, o, n)
  \/ \E b \in Tvb, o \in BitOffsets, n \in 17..33 : GetBits32(b, o, n)
  \/ \E b \in Tvb, o \in BitOffsets, n \in 32..65 : GetBits64(b, o, n)

InitBits == \E data \in BitTexts : InitOver(data, MaxBitsCalls)

SpecBits == InitBits /\ [][NextBits]_vars

\* Lines: one captured buffer over every short text of CR, LF and a letter,
\* views of it, and the search for the end of a line.
NextLine ==
  \/ \E bk \in Tvb, s \in ScanWindows : NewSubset(bk, s[1], s[2], s[3])
  \/ \E b \in Tvb, o \in ScanOffsets, l \in ScanLengths, d \in BOOLEAN :
       FindLineEnd(b, o, l, d)

InitLine == \E data \in Texts({CR, LF, 65}) : InitOver(data, MaxLineCalls)

SpecLine == InitLine /\ [][NextLine]_vars

\* Unquoted lines: one captured buffer over every short text of quotes,
\* LFs and a letter and over a few longer lines, views of it, and the
\* search for the end of an unquoted line.
QuotedLines ==
  { <<QUOTE, QUOTE, 65, LF>>,
    <<QUOTE, QUOTE, 65, 65, LF>>,
    <<65, CR, LF, 65>>,
    <<QUOTE, CR, LF, QUOTE, CR, LF>>,
    <<65, BACKSLASH, QUOTE, LF, 65, LF>>,
    <<65, QUOTE, 66, LF, 67, QUOTE, 68, LF>> }
UnquotedLengths == {-1, 0, 2, MaxData}

NextUnquoted ==
  \/ \E bk \in Tvb, s \in ScanWindows : NewSubset(bk, s[1], s[2], s[3])
  \/ \E b \in Tvb, o \in ScanOffsets, l \in UnquotedLengths :
       FindLineEndUnquoted(b, o, l)

InitUnquoted ==
  \E data \in Texts({QUOTE, LF, 65}) \cup QuotedLines : InitOver(data, MaxUnquotedCalls)

SpecUnquoted == InitUnquoted /\ [][NextUnquoted]_vars

\* Flattening: one captured buffer over every short text, windows into it
\* (the empty window at its start among them), composites of those, and
\* copies out of them.
FlattenWindows == {<<0, 0, -1>>, <<1, -1, -1>>}

NextFlatten ==
  \/ \E bk \in Tvb, s \in FlattenWindows : NewSubset(bk, s[1], s[2], s[3])
  \/ NewComposite
  \/ \E c \in Tvb, mb \in Tvb : CompositeAppend(c, mb)
  \/ \E c \in Tvb, mb \in Tvb : CompositePrepend(c, mb)
  \/ \E c \in Tvb : CompositeFinalize(c)
  \/ \E b \in Tvb, o \in {0, 1}, l \in {0, 1, MaxData} : Memcpy(b, o, l)
  \/ \E b \in Tvb, l \in {1, MaxData} : GetPtr(b, 0, l)

InitFlatten == \E data \in Texts({65, 66}) : InitOver(data, MaxFlattenCalls)

SpecFlatten == InitFlatten /\ [][NextFlatten]_vars

\* the state after tvb_new_real_data(data, Len(data), reported) as the
\* first call
InitCaptured(data, reported, calls) ==
  /\ tvb = [b \in Tvb |-> IF b = 1
                          THEN [RealOver(b, data) EXCEPT !.reported_length = reported]
                          ELSE tvb_init("NONE")]
  /\ nalloc = 1
  /\ nfree = [b \in Tvb |-> 0]
  /\ mem = [b \in Tvb |-> IF b = 1 THEN data ELSE <<>>]
  /\ last_tvb_real = NullTvb
  /\ last_tvb_subset = NullTvb
  /\ held = [b \in Tvb |-> IF b = 1 THEN 1 ELSE 0]
  /\ fault = "none"
  /\ ncalls = calls
  /\ last = Call("new_real", 1, NullTvb, 0, Len(data), reported, "none", <<>>)

\* Tty lines: one captured buffer over the texts of the unquoted lines,
\* captured whole or reported one byte longer than captured, views of it,
\* and the dissector's loop over its lines, one turn at a time.
TtyOffsets == {0, 1, MaxData + 1}

NextTty ==
  \/ ~InTty /\ \E bk \in Tvb, s \in ScanWindows : NewSubset(bk, s[1], s[2], s[3])
  \/ \E b \in Tvb, o \in TtyOffsets : DissectTtyLines(b, o)
  \/ TtyLine

InitTty ==
  \E data \in Texts({QUOTE, LF, 65}) \cup QuotedLines, over \in {0, 1} :
    InitCaptured(data, Len(data) + over, MaxTtyCalls)

SpecTty == InitTty /\ [][NextTty]_vars

\* Outhdr values: a captured buffer that holds an outhdr string, its NUL
\* and the byte after it, parsed into the statics, and the FP info made of
\* them.
RECURSIVE OuthdrText(_)
\* the decimal digits of a value below 100
Decimal(v) == IF v < 10 THEN <<48 + v>> ELSE <<48 + (v \div 10), 48 + (v % 10)>>
\* the values, separated by commas
OuthdrText(values) ==
  IF values = <<>> THEN <<>>
  ELSE IF Len(values) = 1 THEN Decimal(values[1])
  ELSE Decimal(values[1]) \o <<44>> \o OuthdrText(Tail(values))

OuthdrValues ==
  { <<>>, <<1, 2>>,
    <<1, 2, 0, 0, 0>>, <<1, 2, 0, 0, 1, 5, 6>>, <<1, 2, 0, 0, 3>>, <<1, 2, 0, 0, 70>>,
    <<1, 2, 0, 0, 14>>,
    <<CHANNEL_EDCH, 2, 0, 0, 0, 1, 5, 6>>, <<CHANNEL_EDCH, 2, 0, 0, 0, 17>>,
    <<CHANNEL_EDCH, 2, 0, 0, 0, 13>>,
    <<CHANNEL_HSDSCH, 2, 1, 1, 0, 0, 0>>, <<CHANNEL_HSDSCH, 2, 1, 1, 0>>,
    [i \in 1..(MAX_OUTHDR_VALUES + 1) |-> 1] }
OuthdrTails == {<<>>, <<1>>, <<55, 1, 1>>}
Protocols == {"fp", "fp_r7", "fpiur_r5", "tty"}

NextOuthdr ==
  \/ \E b \in Tvb : ParseOuthdrString(b)
  \/ \E p \in Protocols : AttachFpInfo(p)

InitOuthdr ==
  \E values \in OuthdrValues, tail \in OuthdrTails :
    InitOver(OuthdrText(values) \o <<0>> \o tail, MaxOuthdrCalls)

SpecOuthdr == InitOuthdr /\ [][NextOuthdr]_vars

\* ------------------------------------------------------------------ claims
ReadOps == {"get_ptr", "get_uint", "memcpy"}

\* the read op applied to b in the present state
ReadVia(op, b, offset, length) ==
  CASE op = "memcpy" -> tvb_memcpy(tvb, mem, b, offset, length)
    [] op = "get_ptr" ->
         Deref(ensure_contiguous(tvb, mem, b, offset, length, DissectorError))
    [] op = "get_uint" ->
         Deref(fast_ensure_contiguous(tvb, mem, b, offset, length, DissectorError))

\* the bytes a buffer stands for, by the data model: a Real buffer's first
\* length bytes, a Subset's window of its backing, a Composite's members in
\* member order
RECURSIVE Contents(_)
RECURSIVE Concat(_)
Concat(tvbs) == IF tvbs = <<>> THEN <<>> ELSE Contents(Head(tvbs)) \o Concat(Tail(tvbs))
Contents(b) ==
  CASE tvb[b].type = TVBUFF_REAL_DATA -> SubSeq(mem[b], 1, tvb[b].length)
    [] tvb[b].type = TVBUFF_SUBSET ->
         SubSeq(Contents(tvb[b].subset.tvb), tvb[b].subset.offset + 1,
                tvb[b].subset.offset + tvb[b].subset.length)
    [] tvb[b].type = TVBUFF_COMPOSITE -> Concat(tvb[b].composite.tvbs)

RECURSIVE SumLengths(_)
SumLengths(tvbs) ==
  IF tvbs = <<>> THEN 0 ELSE tvb[Head(tvbs)].length + SumLengths(Tail(tvbs))

\* the last call was a read of last.tvb at offset >= 0 for length >= 0 bytes
\* that end past the captured length
ReadPastCaptured ==
  /\ last.op \in ReadOps
  /\ last.offset >= 0 /\ last.length >= 0
  /\ last.offset + last.length > tvb[last.tvb].length

\* C1 as stated: a read that ends past the captured length raises
\* captured-bounds when it ends within the reported length and
\* reported-bounds when it ends past it.
C1_Original ==
  ReadPastCaptured =>
    last.exc = IF last.offset + last.length <= tvb[last.tvb].reported_length
               THEN BoundsError ELSE ReportedBoundsError

\* C1 amended: the fast path classifies by the end of the range; the general
\* range check does so only when the offset itself is within the captured
\* length, and otherwise classifies by the offset alone: reported-bounds
\* when the offset is past the reported length, captured-bounds when it is
\* past the captured length only.
C1_Classification ==
  ReadPastCaptured =>
    LET B == tvb[last.tvb]
        fast == last.op = "get_uint" /\ B.real_data # NULL
    IN last.exc = IF last.offset > B.reported_length THEN ReportedBoundsError
                  ELSE IF ~fast /\ last.offset > B.length THEN BoundsError
                  ELSE IF last.offset + last.length <= B.reported_length THEN BoundsError
                  ELSE ReportedBoundsError

\* the general range check called a range that ends past the reported
\* length a captured-bounds error, because its offset is within it
C1_Witness ==
  /\ ReadPastCaptured
  /\ last.op = "get_ptr"
  /\ last.offset > tvb[last.tvb].length
  /\ last.offset <= tvb[last.tvb].reported_length
  /\ last.offset + last.length > tvb[last.tvb].reported_length
  /\ last.exc = BoundsError

\* the last call was a successful read of a Subset
SubsetWasRead ==
  /\ last.op \in ReadOps
  /\ last.exc = "none"
  /\ last.offset >= 0 /\ last.length >= 0
  /\ tvb[last.tvb].type = TVBUFF_SUBSET

\* the same read applied to the Subset's backing at start + offset
BackingRead ==
  ReadVia(last.op, tvb[last.tvb].subset.tvb,
          tvb[last.tvb].subset.offset + last.offset, last.length)

C3_Original ==
  ( /\ last.op \in ReadOps
    /\ tvb[last.tvb].type = TVBUFF_COMPOSITE
    /\ tvb[last.tvb].composite.tvbs # <<>>
    /\ last.offset >= 0 /\ last.length >= 0
    /\ last.offset + last.length <= tvb[last.tvb].length )
  => /\ last.exc = "none"
     /\ last.bytes = SubSeq(Contents(last.tvb), last.offset + 1, last.offset + last.length)

\* C4 as stated: after finalize the Composite's length is the sum of its
\* members' lengths and its reported_length equals its length.
C4_Original ==
  last.op = "composite_finalize" =>
    /\ tvb[last.tvb].length = SumLengths(tvb[last.tvb].composite.tvbs)
    /\ tvb[last.tvb].reported_length = tvb[last.tvb].length

\* C5 as stated: new_subset(B, B.length, 0, r) with r >= 0 does not raise
\* and yields a buffer of length 0.
C5_Original ==
  ( /\ last.op = "new_subset"
    /\ last.offset = tvb[last.arg].length
    /\ last.length = 0
    /\ last.reported >= 0 )
  => /\ last.exc = "none"
     /\ tvb[last.tvb].initialized
     /\ tvb[last.tvb].length = 0

\* C6 as stated: every initialized buffer has length <= reported_length.
C6_Original ==
  \A b \in Tvb :
    (Live(b) /\ tvb[b].initialized) => tvb[b].length <= tvb[b].reported_length

\* C7: set_reported_length(B, r) raises reported-bounds and changes neither
\* length when r is above the reported length; otherwise it sets the
\* reported length to r and the length to min(length, r); the reported
\* length never increases.
C7_Step ==
  \A b \in Tvb :
    (last'.op = "set_reported_length" /\ last'.tvb = b) =>
      LET r == last'.reported
      IN /\ IF r > tvb[b].reported_length
            THEN /\ last'.exc = ReportedBoundsError
                 /\ tvb'[b].length = tvb[b].length
                 /\ tvb'[b].reported_length = tvb[b].reported_length
            ELSE /\ last'.exc = "none"
                 /\ tvb'[b].reported_length = r
                 /\ tvb'[b].length = Min(tvb[b].length, r)
         /\ tvb'[b].reported_length <= tvb[b].reported_length

C7_SetReportedLength == [][C7_Step]_vars

\* set_reported_length returned and a Real buffer now shows fewer bytes
\* than its data holds: its length was clamped
C7_Witness ==
  /\ last.op = "set_reported_length"
  /\ last.exc = "none"
  /\ tvb[last.tvb].type = TVBUFF_REAL_DATA
  /\ tvb[last.tvb].reported_length = last.reported
  /\ tvb[last.tvb].length = last.reported
  /\ tvb[last.tvb].length < Len(mem[last.tvb])

\* c is a finalized Composite of a and b, and each of the three is held by
\* its creator and referenced by nothing else
ComposedOf(c, a, b) ==
  /\ tvb[c].type = TVBUFF_COMPOSITE /\ tvb[c].initialized
  /\ tvb[c].composite.tvbs = <<a, b>> /\ a # b
  /\ \A x \in {a, b, c} : Live(x) /\ held[x] = 1
  /\ tvb[a].used_in = <<>> /\ tvb[b].used_in = <<>>
  /\ \A x \in Tvb \ {a, b, c} :
        Live(x) => /\ tvb[x].subset.tvb \notin {a, b, c}
                   /\ \A i \in 1..Len(tvb[x].composite.tvbs) :
                        tvb[x].composite.tvbs[i] \notin {a, b, c}
                   /\ \A i \in 1..Len(tvb[x].used_in) : tvb[x].used_in[i] \notin {a, b, c}

\* C8 as stated: free_chain on a Composite of A and B releases the
\* Composite, A and B, each exactly once.
C8_Step ==
  \A c, a, b \in Tvb :
    (ComposedOf(c, a, b) /\ last'.op = "free_chain" /\ last'.tvb = c) =>
      /\ fault' = "none"
      /\ nfree'[c] = 1 /\ nfree'[a] = 1 /\ nfree'[b] = 1

C8_Original == [][C8_Step]_vars

\* the Subsets of bk that the step releases
ReleasedSubsets(bk) ==
  {s \in Tvb : /\ tvb[s].type = TVBUFF_SUBSET /\ tvb[s].initialized
               /\ tvb[s].subset.tvb = bk
               /\ nfree[s] = 0 /\ nfree'[s] = 1}

\* the step releases a Composite that has bk among its members
ReleasesCompositeOf(bk) ==
  \E c \in Tvb : /\ tvb[c].type = TVBUFF_COMPOSITE
                 /\ nfree[c] = 0 /\ nfree'[c] = 1
                 /\ \E i \in 1..Len(tvb[c].composite.tvbs) : tvb[c].composite.tvbs[i] = bk

\* Over a new_subset or free call that neither frees the initialized buffer
\* bk itself nor releases a Composite of bk, bk's usage count changes by
\* exactly +1 when the call is a successful new_subset(bk, ...), by -1 for
\* the Subset of bk the call releases, and not otherwise.
C9_Step ==
  \A bk \in Tvb :
    ( /\ last'.op \in {"new_subset", "free"}
      /\ fault' = "none"
      /\ Live(bk) /\ tvb[bk].initialized
      /\ ~(last'.op = "free" /\ last'.tvb = bk)
      /\ ~ReleasesCompositeOf(bk) )
    => tvb'[bk].usage_count =
         tvb[bk].usage_count
         + (IF last'.op = "new_subset" /\ last'.exc = "none" /\ last'.arg = bk
            THEN 1 ELSE 0)
         - Cardinality(ReleasedSubsets(bk))

\* C9: a successful new_subset(B, ...) raises B's usage count by exactly
\* one, the free that releases a subset of B lowers it by exactly one, and
\* no other new_subset or free call on a subset changes it, so that a
\* matched sequence of new_subset and free calls restores B's usage count.
C9_RefCount == [][C9_Step]_vars

\* a subset of a buffer was released and the buffer's count is back to
\* the one reference of its owner
C9_Witness ==
  /\ last.op = "free"
  /\ tvb[last.tvb].type = TVBUFF_SUBSET
  /\ nfree[last.tvb] = 1
  /\ tvb[last.tvb].subset.tvb # NullTvb
  /\ Live(tvb[last.tvb].subset.tvb)
  /\ held[tvb[last.tvb].subset.tvb] = 1
  /\ tvb[tvb[last.tvb].subset.tvb].usage_count = 1

\* C10 as stated: appending or prepending member M to Composite C raises
\* M's usage count by one and leaves C's own usage count as it was.
C10_Step ==
  \A c, m \in Tvb :
    (last'.op \in {"composite_append", "composite_prepend"}
       /\ last'.tvb = c /\ last'.arg = m /\ c # m) =>
      /\ tvb'[m].usage_count = tvb[m].usage_count + 1
      /\ tvb'[c].usage_count = tvb[c].usage_count

C10_Original == [][C10_Step]_vars

\* C11 as stated: for every initialized buffer and offset o with
\* 0 <= o <= length, offset_exists is true iff o < length, and
\* bytes_exist(B, o, 0) is true.
C11_Original ==
  /\ (last.op = "offset_exists" /\ 0 <= last.offset
        /\ last.offset <= tvb[last.tvb].length)
       => (last.ret = 1 <=> last.offset < tvb[last.tvb].length)
  /\ (last.op = "bytes_exist" /\ last.length = 0 /\ 0 <= last.offset
        /\ last.offset <= tvb[last.tvb].length)
       => last.ret = 1

\* C12 as stated: when new_real or new_subset raises, the header allocated
\* for the buffer under construction has been released by the time the
\* error reaches the caller.
C12_Original ==
  (last.op \in {"new_real", "new_real_child", "new_subset"} /\ last.exc # "none")
    => nfree[last.tvb] = 1

\* C13: while tvb_uncompress skips a gzip header it reads no byte at an
\* index at or beyond comprlen of the scratch copy, for every comprlen >= 2,
\* and a header that runs past the end of the copy makes it return NULL.
C13_Original ==
  (last.op = "uncompress" /\ Len(last.log.compr) >= 2)
    => /\ \A i \in last.log.reads : i < Len(last.log.compr)
       /\ last.log.c > Len(last.log.compr) => last.ret = NullTvb

\* what tvb_uncompress allocated is released exactly once, every decoder
\* state made by inflateInit2 is ended, and an accumulator went to the
\* returned buffer
ReleasedOnce(z) ==
  /\ \A n \in z.alloc : z.rel[n] = 1
  /\ \A n \in DOMAIN z.rel \ z.alloc : z.rel[n] = 0
  /\ z.zinits = z.zended
  /\ z.has => z.ret

\* C14: on every exit path of tvb_uncompress the scratch copy, the output
\* window and the stream state are each released exactly once and the
\* accumulator is released once or handed to the returned buffer.
C14_Original ==
  (last.op = "uncompress" /\ fault = "none") => ReleasedOnce(last.log)

\* the same over the exits that return (a buffer or NULL) only
C14_Returns ==
  (last.op = "uncompress" /\ fault = "none" /\ last.exc = "none") => ReleasedOnce(last.log)

\* the decoder result that ended the loop
LastErr(z) == IF z.errs = <<>> THEN Z_OK ELSE z.errs[Len(z.errs)]

\* C15: tvb_uncompress returns a buffer only when the decoder reached the
\* end of the stream, or ran out of buffer after producing output; after
\* any other decoder error it returns NULL.
C15_Original ==
  (last.op = "uncompress" /\ last.ret # NullTvb)
    => \/ LastErr(last.log) = Z_STREAM_END
       \/ LastErr(last.log) = Z_BUF_ERROR /\ last.log.bytes_out > 0

\* what a search called as last was may return: -1, or the first offset r at
\* or after the start, inside the searched range, where a needle is
FirstMatch(needles) ==
  LET b == last.tvb
      o == IF last.offset < 0 THEN tvb[b].length + last.offset ELSE last.offset
      e == IF last.length = -1 \/ o + last.length > tvb[b].length
           THEN tvb[b].length ELSE o + last.length
      hits == {r \in o..(e - 1) : Contents(b)[r + 1] \in needles}
  IN IF hits = {} THEN last.ret = -1
     ELSE last.ret = CHOOSE r \in hits : \A q \in hits : r <= q

\* C16: tvb_find_guint8 and tvb_pbrk_guint8 never raise: for every
\* initialized buffer of any variant and every offset and maxlength they
\* return -1 or the offset, in the buffer's own coordinates, of the first
\* match in the searched range.
C16_Original ==
  (last.op \in {"find_guint8", "pbrk_guint8"} /\ fault = "none")
    => /\ last.exc = "none"
       /\ FirstMatch({last.bytes[i] : i \in 1..Len(last.bytes)})

\* a search that returns, returns what C16 says
C16_Returned ==
  (last.op \in {"find_guint8", "pbrk_guint8"} /\ last.exc = "none")
    => FirstMatch({last.bytes[i] : i \in 1..Len(last.bytes)})

\* C17: after tvb_get_nstringz returns with bufsize >= 1, the buffer holds a
\* NUL within its first bufsize bytes, whether the string length or -1 was
\* returned.
C17_Original ==
  (last.op = "get_nstringz" /\ last.exc = "none" /\ last.length >= 1)
    => \E i \in 1..last.length : last.bytes[i] = 0

BitsOps == {"get_bits8", "get_bits16", "get_bits32", "get_bits64"}

\* the widths each accessor declares
Declared(op) ==
  CASE op = "get_bits8" -> 1..8
    [] op = "get_bits16" -> 8..16
    [] op = "get_bits32" -> 17..32
    [] op = "get_bits64" -> 32..64

\* the big-endian integer of size bytes at byte offset k of the buffer last
\* was applied to
BigEndian(k, size) == tvb_get_ntoh(tvb, mem, last.tvb, k, size, "none")

\* C18: a bit-field read of width 8n at bit offset 8k, n in {1, 2, 3, 4, 8},
\* through an accessor whose declared range holds 8n, succeeds exactly when
\* the big-endian read of n bytes at k succeeds, and returns the same value.
C18_Original ==
  (/\ last.op \in BitsOps
   /\ last.offset % 8 = 0
   /\ last.length \in {8, 16, 24, 32, 64} \cap Declared(last.op))
    => /\ last.exc = "none" <=> BigEndian(last.offset \div 8, last.length \div 8).thrown = "none"
       /\ last.exc = "none" =>
            last.log = Cast(BigEndian(last.offset \div 8, last.length \div 8).bits,
                            Len(last.log))

\* when both reads return, they return the same value, and a bit-field
\* read that returns is over bytes the integer read returns for as well
C18_Values ==
  (/\ last.op \in BitsOps
   /\ last.offset % 8 = 0
   /\ last.length \in {8, 16, 24, 32, 64} \cap Declared(last.op)
   /\ last.exc = "none")
    => /\ BigEndian(last.offset \div 8, last.length \div 8).thrown = "none"
       /\ last.log = Cast(BigEndian(last.offset \div 8, last.length \div 8).bits,
                          Len(last.log))

\* bits [from, from + width) of the buffer last was applied to, flush right
\* in w bits
BitField(from, width, w) ==
  Cast(SubSeq(pntoh(Contents(last.tvb)), from + 1, from + width), w)

\* C19: a bit-field read with a width in the accessor's declared range that
\* returns, returns bits [bit_offset, bit_offset + width) of the buffer in
\* big-endian bit order, flush right, all higher bits zero.
C19_BitField ==
  (last.op \in BitsOps /\ last.exc = "none" /\ last.length \in Declared(last.op))
    => /\ Len(last.log) = (CASE last.op = "get_bits8" -> 8
                              [] last.op = "get_bits16" -> 16
                              [] last.op = "get_bits32" -> 32
                              [] last.op = "get_bits64" -> 64)
       /\ last.log = BitField(last.offset, last.length, Len(last.log))

\* a field that starts inside an octet and ends in the octet after the
\* sixteen bits read first, with a one among its bits
C19_Witness ==
  /\ last.op = "get_bits16"
  /\ last.exc = "none"
  /\ last.offset % 8 # 0
  /\ (last.offset % 8) + last.length > 16
  /\ \E i \in 1..Len(last.log) : last.log[i] = 1
  /\ \E i \in 1..Len(last.log) : last.log[i] = 0

\* what C20 says of the call last records, on the buffer's contents: the
\* scanned range is [offset, end), p the first CR or LF in it
LineAsClaimed ==
  LET b == last.tvb
      text == Contents(b)
      o == last.offset
      end == IF last.length = -1 \/ o + last.length > Len(text)
             THEN Len(text) ELSE o + last.length
      eols == {p \in o..(end - 1) : p >= 0 /\ text[p + 1] \in {CR, LF}}
      p == CHOOSE q \in eols : \A r \in eols : q <= r
  IN IF eols = {}
     THEN IF last.log.desegment THEN last.ret = -1
          ELSE /\ last.ret = Len(text) - o
               /\ last.log.set /\ last.log.next_offset = Len(text)
     ELSE IF text[p + 1] = CR /\ p + 1 >= end /\ last.log.desegment THEN last.ret = -1
     ELSE /\ last.ret = p - o
          /\ last.log.set
          /\ last.log.next_offset =
               IF text[p + 1] = CR /\ p + 1 < end /\ text[p + 2] = LF THEN p + 2 ELSE p + 1

\* C20: tvb_find_line_end returns, for every buffer and range, the length
\* of the line up to the first CR or LF and the offset after the line end
\* (after the LF of a CR LF inside the range; -1 under desegment when the
\* CR is the last scanned byte); without a CR or LF, -1 under desegment and
\* otherwise the captured bytes remaining and the end of the buffer.
C20_Original ==
  (last.op = "find_line_end" /\ fault = "none")
    => last.exc = "none" /\ LineAsClaimed

\* the same for ranges that lie in the buffer and run to its end
C20_ToEnd ==
  (/\ last.op = "find_line_end"
   /\ 0 <= last.offset /\ last.offset <= tvb[last.tvb].length
   /\ last.length = -1)
    => last.exc = "none" /\ LineAsClaimed

\* the call last records lies in its buffer: the offset is in it and the
\* range, when a length is given, ends in it
InBuffer ==
  /\ 0 <= last.offset /\ last.offset <= tvb[last.tvb].length
  /\ last.length >= -1
  /\ last.length # -1 => last.offset + last.length <= tvb[last.tvb].length

\* the end of the range of the call last records
RangeEnd == IF last.length = -1 THEN tvb[last.tvb].length ELSE last.offset + last.length

\* what C21 says of the call last records, on the buffer's contents: p is
\* the first CR or LF of the range with an even number of quotes from the
\* start offset to it; escapes tells whether a quote after a backslash
\* counts
UnquotedAsClaimed(escapes) ==
  LET text == Contents(last.tvb)
      o == last.offset
      end == RangeEnd
      quotes(p) == {i \in o..(p - 1) :
                      /\ text[i + 1] = QUOTE
                      /\ ~(escapes /\ i > o /\ text[i] = BACKSLASH)}
      eols == {p \in o..(end - 1) :
                 text[p + 1] \in {CR, LF} /\ Cardinality(quotes(p)) % 2 = 0}
      p == CHOOSE q \in eols : \A r \in eols : q <= r
  IN /\ last.log.set
     /\ IF eols = {}
        THEN last.ret = end - o /\ last.log.next_offset = end
        ELSE /\ last.ret = p - o
             /\ last.log.next_offset =
                  IF text[p + 1] = CR /\ p + 1 < end /\ text[p + 2] = LF
                  THEN p + 2 ELSE p + 1

\* C21: tvb_find_line_end_unquoted reports, for every input, the first CR,
\* LF or CR LF that an even number of unescaped double quotes precedes from
\* the start offset, with the line length and the next offset computed from
\* it as tvb_find_line_end computes them.
C21_Original ==
  (last.op = "find_line_end_unquoted" /\ InBuffer)
    => last.exc = "none" /\ UnquotedAsClaimed(TRUE)

\* the same with every quote counted, for ranges that run to the end of
\* the buffer
C21_ToEnd ==
  (last.op = "find_line_end_unquoted" /\ InBuffer /\ last.length = -1)
    => last.exc = "none" /\ UnquotedAsClaimed(FALSE)

\* C25: a call of tvb_find_line_end_unquoted with a length looks at no byte
\* at or after offset + len and returns a line length of at most len and a
\* next offset of at most offset + len.
C25_Original ==
  (last.op = "find_line_end_unquoted" /\ InBuffer /\ last.length >= 0
     /\ last.exc = "none")
    => /\ last.log.reach <= last.offset + last.length
       /\ last.ret <= last.length
       /\ last.log.next_offset <= last.offset + last.length

\* the results alone
C25_Results ==
  (last.op = "find_line_end_unquoted" /\ InBuffer /\ last.length >= 0
     /\ last.exc = "none")
    => /\ last.ret <= last.length
       /\ last.log.next_offset <= last.offset + last.length

\* C22: in every reachable state, also after tvb_set_reported_length on a
\* backing buffer that has subsets, the window of every subset lies in its
\* backing buffer: 0 <= offset <= offset + length <= backing length.
C22_Original ==
  \A b \in Tvb :
    (Live(b) /\ tvb[b].initialized /\ tvb[b].type = TVBUFF_SUBSET
       /\ Live(tvb[b].subset.tvb))
      => /\ 0 <= tvb[b].subset.offset
         /\ tvb[b].subset.offset <= tvb[b].subset.offset + tvb[b].subset.length
         /\ tvb[b].subset.offset + tvb[b].subset.length <= tvb[tvb[b].subset.tvb].length

\* the same of the subset a successful tvb_new_subset has just made
C22_AtCreation ==
  (last.op = "new_subset" /\ last.exc = "none")
    => /\ 0 <= tvb[last.tvb].subset.offset
       /\ tvb[last.tvb].subset.offset + tvb[last.tvb].subset.length
            <= tvb[tvb[last.tvb].subset.tvb].length

\* the last octet that holds a bit of the field last describes
LastOctet == (last.offset + last.length - 1) \div 8

\* C23: a bit-field read through any of the four accessors, with a width in
\* the accessor's declared range, succeeds whenever every octet from
\* bit_offset >> 3 through (bit_offset + width - 1) >> 3 is captured, and
\* raises only if one of those octets is missing.
C23_Original ==
  (/\ last.op \in BitsOps
   /\ last.length \in Declared(last.op)
   /\ LastOctet < tvb[last.tvb].length)
    => last.exc = "none"

\* the same of tvb_get_bits8 alone
C23_Bits8 ==
  (/\ last.op = "get_bits8"
   /\ last.length \in Declared(last.op)
   /\ LastOctet < tvb[last.tvb].length)
    => last.exc = "none"

\* a read that returns had every octet of its field captured
C23_Returned ==
  (last.op \in BitsOps /\ last.length \in Declared(last.op) /\ last.exc = "none")
    => LastOctet < tvb[last.tvb].length

\* the offsets, from the offset of the call last records, of the zero
\* bytes among the first min(bufsize, captured bytes remaining) bytes
ZerosInReach ==
  LET text == Contents(last.tvb)
      k == Min(last.length, Len(text) - last.offset)
  IN {i \in 0..(k - 1) : text[last.offset + i + 1] = 0}

\* C24: tvb_get_nstringz returns -1 only if the string was truncated: with
\* a zero byte among the first min(bufsize, captured bytes remaining) bytes
\* at the offset it returns the string length without the terminator, and
\* it returns -1 only when no zero byte is among those bytes.
C24_Original ==
  (/\ last.op = "get_nstringz" /\ last.exc = "none"
   /\ 0 <= last.offset /\ last.offset <= tvb[last.tvb].length)
    => /\ ZerosInReach # {} =>
            /\ last.ret \in ZerosInReach
            /\ \A i \in ZerosInReach : last.ret <= i
       /\ last.ret = -1 => ZerosInReach = {}

\* a call that returns a length returns that of the string at the offset
C24_Length ==
  (/\ last.op = "get_nstringz" /\ last.exc = "none" /\ last.length >= 2
   /\ 0 <= last.offset /\ last.offset <= tvb[last.tvb].length
   /\ last.ret # -1)
    => /\ last.ret \in ZerosInReach
       /\ \A i \in ZerosInReach : last.ret <= i

\* the last call was a read of at most 8 bytes from a buffer that has a
\* pointer to its bytes
SmallDirectRead ==
  /\ last.op \in {"get_uint", "get_ptr"}
  /\ tvb[last.tvb].real_data # NULL
  /\ 0 <= last.length /\ last.length <= 8

\* what the fast path and the general path make of that read
FastPath == fast_ensure_contiguous(tvb, mem, last.tvb, last.offset, last.length, "none")
GeneralPath == ensure_contiguous(tvb, mem, last.tvb, last.offset, last.length, "none")

\* C26: on every buffer with a pointer to its bytes, for every offset and
\* every length of at most 8, fast_ensure_contiguous and ensure_contiguous
\* both return the pointer at the same offset or both raise, and then an
\* error of the same kind.
C26_Original ==
  SmallDirectRead =>
    /\ FastPath.thrown = GeneralPath.thrown
    /\ FastPath.thrown = "none" => FastPath.ptr = GeneralPath.ptr

\* the read starts past the captured bytes, within the reported length,
\* and ends past the reported length
StartsPastCaptured ==
  /\ last.offset > tvb[last.tvb].length
  /\ last.offset <= tvb[last.tvb].reported_length
  /\ last.offset + last.length > tvb[last.tvb].reported_length

\* C26 amended: on buffers whose captured length is within the reported
\* length the two paths return together, and then the same pointer; when
\* they raise they raise the same kind, except for a read that starts past
\* the captured bytes but within the reported length and ends past the
\* reported length, which is a reported-bounds error on the fast path and
\* a captured-bounds error on the general path.
C26_Agreement ==
  (SmallDirectRead /\ tvb[last.tvb].length <= tvb[last.tvb].reported_length) =>
    /\ FastPath.thrown = "none" <=> GeneralPath.thrown = "none"
    /\ FastPath.thrown = "none" => FastPath.ptr = GeneralPath.ptr
    /\ IF StartsPastCaptured
       THEN FastPath.thrown = ReportedBoundsError /\ GeneralPath.thrown = BoundsError
       ELSE FastPath.thrown = GeneralPath.thrown

\* a small read through the fast path on which the two paths raise
\* different kinds
C26_Witness ==
  /\ SmallDirectRead
  /\ last.op = "get_uint"
  /\ tvb[last.tvb].length <= tvb[last.tvb].reported_length
  /\ StartsPastCaptured
  /\ last.exc = ReportedBoundsError
  /\ GeneralPath.thrown = BoundsError

\* C27: after any sequence of constructions, appends, finalizations and
\* releases, every buffer in the used_in list of a live buffer is live, so
\* tvb_free_chain never visits or frees a released buffer.
C27_Original ==
  /\ \A b \in Tvb :
       Live(b) => \A i \in 1..Len(tvb[b].used_in) : Live(tvb[b].used_in[i])
  /\ last.op = "free_chain" => fault # "use_after_free"

\* the first half alone: the lists of live buffers hold live buffers
C27_Lists ==
  \A b \in Tvb :
    Live(b) => \A i \in 1..Len(tvb[b].used_in) : Live(tvb[b].used_in[i])

\* the second half alone: tvb_free_chain touches no released buffer
C27_Chain == last.op = "free_chain" => fault # "use_after_free"

\* the last call copied out of a finalized composite, or flattened it
CompositeCopy ==
  /\ last.op \in {"memcpy", "get_ptr"}
  /\ tvb[last.tvb].type = TVBUFF_COMPOSITE

\* C28: copying out of a finalized composite, and flattening it, terminate
\* for every composite, zero-length members included: every step of
\* composite_memcpy's recursion lowers the number of bytes still to copy.
C28_Original == CompositeCopy => last.exc # "StackOverflow"

\* the same of composites whose first member is not empty
C28_FirstNotEmpty ==
  (/\ CompositeCopy
   /\ tvb[last.tvb].composite.tvbs # <<>>
   /\ tvb[Head(tvb[last.tvb].composite.tvbs)].length > 0)
    => last.exc # "StackOverflow"

\* the turn of the loop from the state the dissector is in: the line found
\* and the exception of the copy of its bytes
TurnLine == tvb_find_line_end_unquoted(tvb, mem, last.tvb, last.offset, -1, "none")
TurnString ==
  tvb_get_ephemeral_string(tvb, mem, last.tvb, last.offset, TurnLine.ret, "none").thrown

\* the dissector is at the head of its loop, the loop's condition holds and
\* the turn from here neither raises nor moves offset forward
TtyStuck ==
  /\ InTty
  /\ tvb_reported_length_remaining(tvb, last.tvb, last.offset) > 0
  /\ TurnLine.thrown = "none"
  /\ TurnString = "none"
  /\ TurnLine.next_offset <= last.offset

\* C29: dissect_tty_lines terminates on every buffer, also on one reported
\* longer than captured: every turn of its loop raises or moves offset
\* forward, so the bytes reported to remain run out and the loop is left.
C29_Original == ~TtyStuck

\* the same of the turns taken: a turn that stays in the loop has moved
\* offset forward
C29_Advances ==
  [][(InTty /\ last'.op = "dissect_tty_lines" /\ last'.log.pc = "loop")
       => last'.offset > last.offset]_vars

\* on a buffer captured whole every turn raises or moves offset forward
C29_CapturedWhole ==
  tvb[last.tvb].reported_length <= tvb[last.tvb].length => ~TtyStuck

\* C30: for every outhdr string parsed, attach_fp_info reads outhdr_values
\* only at indexes below outhdr_values_found, which is at most
\* MAX_OUTHDR_VALUES, and writes chan_tf_size, chan_num_tbs, edch_ddi and
\* edch_macd_pdu_size only at indexes below the capacity of each, whatever
\* num_chans and no_ddi_entries the string carries.
C30_Original ==
  last.op = "attach_fp_info" =>
    /\ last.log.outhdr_values_found <= MAX_OUTHDR_VALUES
    /\ last.log.reads <= last.log.outhdr_values_found
    /\ last.log.written.chan_tf_size <= MAX_FP_CHANS
    /\ last.log.written.chan_num_tbs <= MAX_FP_CHANS
    /\ last.log.written.edch_ddi <= MAX_EDCH_DDIS
    /\ last.log.written.edch_macd_pdu_size <= MAX_EDCH_DDIS

\* parse_outhdr_string stores at most MAX_OUTHDR_VALUES values
C30_Found ==
  last.op \in {"parse_outhdr_string", "attach_fp_info"}
    => last.log.outhdr_values_found <= MAX_OUTHDR_VALUES

\* the reads stay inside outhdr_values
C30_ReadsInArray == last.op = "attach_fp_info" => last.log.reads <= MAX_OUTHDR_VALUES

\* the writes stay inside the arrays of p_fp_info
C30_WritesInArrays ==
  last.op = "attach_fp_info" =>
    /\ last.log.written.chan_tf_size <= MAX_FP_CHANS
    /\ last.log.written.chan_num_tbs <= MAX_FP_CHANS
    /\ last.log.written.edch_ddi <= MAX_EDCH_DDIS
    /\ last.log.written.edch_macd_pdu_size <= MAX_EDCH_DDIS

====
